---- MODULE Spec2Model ----
(***************************************************************************)
(* Model of the extraction-and-aggregation pipeline:                       *)
(*   extraction_script/extract_cloudwatch_logs.py                          *)
(*   extraction_script/extract_k6_metrics.py                               *)
(*                                                                         *)
(* Numbers.  Python floats are modelled as exact rationals [n, d] in       *)
(* lowest terms (d > 0); "/" is exact division.  int(q * n) for            *)
(* q = 0.9, 0.95, 0.99 is modelled as (num * n) \div den: the two agree    *)
(* for every n in 1..200000 under IEEE-754 doubles.  Latency strings are   *)
(* either finite integers or a non-numeric token.                          *)
(***************************************************************************)
EXTENDS Integers, Sequences, FiniteSets, TLC

(***************************************************************************)
(* Bounds                                                                  *)
(***************************************************************************)
MaxBucket == 11
MaxOther == 1
MaxIndexN == 120
MaxEvents == 3
MaxRecords == 3
MaxK6Files == 3
MaxLogFiles == 3
NumServices == 2

MaxMetricFiles == 3

MaxRecalcFiles == 3

\* how many times the artifacts under test-results are changed
MaxChanges == 2

(***************************************************************************)
(* Rational arithmetic (Python float "/" and "+")                          *)
(***************************************************************************)
Abs(x) == IF x < 0 THEN -x ELSE x

RECURSIVE GCD(_, _)
GCD(a, b) == IF b = 0 THEN a ELSE GCD(b, a % b)

Rat(n, d) == LET g == GCD(Abs(n), d) IN [n |-> n \div g, d |-> d \div g]

R(i) == [n |-> i, d |-> 1]

RAdd(x, y) == Rat(x.n * y.d + y.n * x.d, x.d * y.d)

RDiv(x, k) == Rat(x.n, x.d * k)

RLe(x, y) == x.n * y.d <= y.n * x.d

RLt(x, y) == x.n * y.d < y.n * x.d

(***************************************************************************)
(* Python list helpers                                                     *)
(***************************************************************************)
RECURSIVE insert(_, _)
insert(S, x) ==
    IF S = <<>> THEN <<x>>
    ELSE IF x < Head(S) THEN <<x>> \o S
    ELSE <<Head(S)>> \o insert(Tail(S), x)

RECURSIVE sort(_)
sort(L) == IF L = <<>> THEN <<>> ELSE insert(sort(Tail(L)), Head(L))

RECURSIVE sum(_)
sum(L) == IF L = <<>> THEN 0 ELSE Head(L) + sum(Tail(L))

\* S[i] with Python's 0-based index and negative indices counted from the end
At(S, i) == IF i < 0 THEN S[Len(S) + i + 1] ELSE S[i + 1]

(***************************************************************************)
(* LatencyStats of one bucket (the per-operation block of                  *)
(* extract_cloudwatch_logs_metrics)                                        *)
(***************************************************************************)
PercentileIndex_floor_plus_one(num, den, n) == ((num * n) \div den) + 1

\* int(0.9 * n), int(0.95 * n), int(0.99 * n)
PercentileIndex(num, den, n) == (num * n) \div den

latency_median_upper(S) == R(At(S, Len(S) \div 2))

latency_median(S) ==
    LET n == Len(S) IN
    IF n % 2 = 1 THEN R(At(S, n \div 2))
    ELSE Rat(At(S, n \div 2 - 1) + At(S, n \div 2), 2)

StatsIndexOk(n) ==
    /\ n > 0
    /\ \A q \in {<<9, 10>>, <<95, 100>>, <<99, 100>>} :
          PercentileIndex(q[1], q[2], n) \in 0..(n - 1)

\* The dict literal built for one non-empty bucket; an index outside the list
\* makes the whole extraction raise IndexError.
LatencyStats(latencies) ==
    LET S == sort(latencies)
        n == Len(S)
    IN  IF ~StatsIndexOk(n) THEN [ok |-> FALSE, rec |-> <<>>]
        ELSE [ok |-> TRUE,
              rec |-> [total_requests |-> R(n),
                       latency_min    |-> R(At(S, 0)),
                       latency_max    |-> R(At(S, -1)),
                       latency_avg    |-> Rat(sum(S), n),
                       latency_median |-> latency_median(S),
                       latency_p90    |-> R(At(S, PercentileIndex(9, 10, n))),
                       latency_p95    |-> R(At(S, PercentileIndex(95, 100, n))),
                       latency_p99    |-> R(At(S, PercentileIndex(99, 100, n)))]]

\* What a call returns: a list (items), the empty dict {} or a raised exception.
Returned(items) == [tag |-> "list", exc |-> "", items |-> items]

EmptyDict == [tag |-> "dict", exc |-> "", items |-> <<>>]

Raised(e) == [tag |-> "raise", exc |-> e, items |-> <<>>]

NotCalled == [tag |-> "none", exc |-> "", items |-> <<>>]

build_metrics_zero_filled(serialize_latencies, deserialize_latencies) ==
    LET zero == [k \in {"total_requests", "latency_min", "latency_max", "latency_avg",
                        "latency_median", "latency_p90", "latency_p95", "latency_p99"}
                    |-> R(0)]
        rec(L) == IF L = <<>> THEN zero ELSE LatencyStats(L).rec
    IN  Returned(<<rec(deserialize_latencies), rec(serialize_latencies)>>)

\* From the two buckets to the returned value: [] when both are empty,
\* metrics['deserialize'] / metrics['serialize'] looked up in a dict that holds
\* only the non-empty buckets' blocks.
build_metrics(serialize_latencies, deserialize_latencies) ==
    IF serialize_latencies = <<>> /\ deserialize_latencies = <<>> THEN Returned(<<>>)
    ELSE LET ser   == IF serialize_latencies # <<>>
                      THEN LatencyStats(serialize_latencies)
                      ELSE [ok |-> TRUE, rec |-> <<>>]
             deser == IF deserialize_latencies # <<>>
                      THEN LatencyStats(deserialize_latencies)
                      ELSE [ok |-> TRUE, rec |-> <<>>]
         IN  IF ~ser.ok \/ ~deser.ok THEN Raised("IndexError")
             ELSE IF deserialize_latencies = <<>> \/ serialize_latencies = <<>>
                  THEN Raised("KeyError")
             ELSE Returned(<<deser.rec, ser.rec>>)

(***************************************************************************)
(* The structured-log parser: one event, the event loop, one file          *)
(***************************************************************************)
\* float(latency_str): the number, or ValueError for a non-numeric string
float(str) ==
    CASE str = "0" -> [ok |-> TRUE, val |-> 0]
      [] str = "1" -> [ok |-> TRUE, val |-> 1]
      [] str = "2" -> [ok |-> TRUE, val |-> 2]
      [] OTHER     -> [ok |-> FALSE, val |-> 0]

\* operation.lower()
lower(str) ==
    CASE str = "Serialize"   -> "serialize"
      [] str = "Deserialize" -> "deserialize"
      [] OTHER               -> str

is_outlier_ge(latency) == latency >= 1

\* if latency > 1: ... continue
is_outlier(latency) == latency > 1

\* One iteration of "for event in data['events']": b is the pair of buckets so
\* far, the value is the pair after the event.  parts is the message split on
\* "," with the quotes stripped.
parse_event(b, event) ==
    IF event.message = <<>> THEN b
    ELSE IF Len(event.message) < 6 THEN b
    ELSE LET operation   == event.message[3]
             latency_str == event.message[6]
             f           == float(latency_str)
         IN  IF ~f.ok THEN b
             ELSE IF is_outlier(f.val) THEN b
             ELSE IF lower(operation) = "serialize"
                  THEN [b EXCEPT !.serialize = Append(@, f.val)]
             ELSE IF lower(operation) = "deserialize"
                  THEN [b EXCEPT !.deserialize = Append(@, f.val)]
             ELSE b

\* The whole event loop, from empty buckets.
parse_events(events) ==
    LET RECURSIVE loop(_, _)
        loop(b, i) == IF i > Len(events) THEN b
                      ELSE loop(parse_event(b, events[i]), i + 1)
    IN  loop([serialize |-> <<>>, deserialize |-> <<>>], 1)

\* extract_cloudwatch_logs_metrics on one file.  file.kind is "missing"
\* (FileNotFoundError), "invalid_json" (JSONDecodeError), "no_events" (a JSON
\* object without the key 'events') or "ok".
extract_cloudwatch_logs_metrics(file) ==
    IF file.kind \in {"missing", "invalid_json", "no_events"} THEN EmptyDict
    ELSE LET b == parse_events(file.events)
         IN  build_metrics(b.serialize, b.deserialize)

(***************************************************************************)
(* The cross-run aggregator: calculate_average_metrics, both copies.       *)
(* A record is a function from metric keys to rationals.                   *)
(***************************************************************************)
DictValue(d) == [tag |-> "dict", exc |-> "", val |-> d]

DictRaised(e) == [tag |-> "raise", exc |-> e, val |-> <<>>]

DictNotCalled == [tag |-> "none", exc |-> "", val |-> <<>>]

EmptyAcc == [counters |-> <<>>, sums |-> <<>>]

\* a JSON value that is not a number (a string, null, a list), and a JSON
\* value that is not an object where an object is expected
NotANumber == [str |-> "n/a"]

NotAMapping == [list |-> <<>>]

is_number(v) == DOMAIN v = {"n", "d"}

\* "sums[metric_key] += metric_value" adds to the int 0: any value that is
\* not a number raises TypeError
summable(all_metrics) ==
    \A i \in 1..Len(all_metrics) : \A k \in DOMAIN all_metrics[i] :
        is_number(all_metrics[i][k])

\* "for metric_key, metric_value in metrics.items()": first sight of a key
\* initialises counters and sums to 0, then both are added to
add_record(acc, metrics) ==
    LET keys == DOMAIN acc.counters \cup DOMAIN metrics
        old_count(k) == IF k \in DOMAIN acc.counters THEN acc.counters[k] ELSE 0
        old_sum(k)   == IF k \in DOMAIN acc.sums THEN acc.sums[k] ELSE R(0)
    IN  [counters |-> [k \in keys |->
                          IF k \in DOMAIN metrics THEN old_count(k) + 1 ELSE old_count(k)],
         sums     |-> [k \in keys |->
                          IF k \in DOMAIN metrics THEN RAdd(old_sum(k), metrics[k])
                          ELSE old_sum(k)]]

RECURSIVE accumulate(_, _)
accumulate(acc, all_metrics) ==
    IF all_metrics = <<>> THEN acc
    ELSE accumulate(add_record(acc, Head(all_metrics)), Tail(all_metrics))

averages_over_all_records(acc, total) ==
    [k \in {key \in DOMAIN acc.counters : acc.counters[key] > 0} |->
        RDiv(acc.sums[k], total)]

\* "for metric_key in counters: if counters[metric_key] > 0: sums / counters"
averages(acc) ==
    [k \in {key \in DOMAIN acc.counters : acc.counters[key] > 0} |->
        RDiv(acc.sums[k], acc.counters[k])]

K6_average_by_record_count(all_metrics) ==
    IF all_metrics = <<>> THEN DictRaised("Exception")
    ELSE DictValue(averages_over_all_records(accumulate(EmptyAcc, all_metrics),
                                           Len(all_metrics)))

\* extract_k6_metrics.py: raises on an empty list
K6_calculate_average_metrics(all_metrics) ==
    IF all_metrics = <<>> THEN DictRaised("Exception")
    ELSE IF ~summable(all_metrics) THEN DictRaised("TypeError")
    ELSE DictValue(averages(accumulate(EmptyAcc, all_metrics)))

Logs_sum_metrics(all_metrics) ==
    IF all_metrics = <<>> THEN DictValue(<<>>)
    ELSE DictValue(accumulate(EmptyAcc, all_metrics).sums)

\* extract_cloudwatch_logs.py: returns {} on an empty list
Logs_calculate_average_metrics(all_metrics) ==
    IF all_metrics = <<>> THEN DictValue(<<>>)
    ELSE IF ~summable(all_metrics) THEN DictRaised("TypeError")
    ELSE DictValue(averages(accumulate(EmptyAcc, all_metrics)))

(***************************************************************************)
(* The load-test result parser: extract_k6_metrics.                        *)
(* A file is [kind, metrics]; kind is "missing" (FileNotFoundError),       *)
(* "invalid_json" (JSONDecodeError), "not_object" (the top-level JSON      *)
(* value is a list) or "ok"; metrics maps the metric names present to      *)
(* their 'values' mapping (an entry without 'values' and the top-level     *)
(* object without 'metrics' read as empty mappings, as .get with its {}    *)
(* default returns); a 'values' that is not an object is NotAMapping.      *)
(***************************************************************************)
\* d.get(k, default)
get(d, k, default) == IF k \in DOMAIN d THEN d[k] ELSE default

\* the keys written for one metric entry: <<output key, statistical sub-key>>
DurationKeys ==
    {<<"request_duration_avg", "avg">>, <<"request_duration_min", "min">>,
     <<"request_duration_max", "max">>, <<"request_duration_median", "med">>,
     <<"request_duration_p90", "p(90)">>, <<"request_duration_p95", "p(95)">>,
     <<"request_duration_p99", "p(99)">>}

ThroughputKeys ==
    {<<"throughput_requests_per_second", "rate">>, <<"throughput_total_requests", "count">>}

SentKeys == {<<"data_sent_count", "count">>, <<"data_sent_rate", "rate">>}

ReceivedKeys == {<<"data_received_count", "count">>, <<"data_received_rate", "rate">>}

VusKeys == {<<"vus_max", "value">>}

ChecksKeys ==
    {<<"success_rate_rate", "rate">>, <<"success_rate_passes", "passes">>,
     <<"success_rate_fails", "fails">>}

\* metrics[key] = entry.get('values', {}).get(sub, 0) for each pair of keys
fill(keys, values) ==
    [k \in {kv[1] : kv \in keys} |->
        get(values, (CHOOSE kv \in keys : kv[1] = k)[2], R(0))]

\* the entry the request_duration_* keys are read from ("" for none)
duration_source(metrics) ==
    LET is_grpc == "grpc_req_duration" \in DOMAIN metrics
        is_rest == "http_req_duration" \in DOMAIN metrics
    IN  IF is_rest /\ "http_req_duration" \in DOMAIN metrics THEN "http_req_duration"
        ELSE IF is_grpc /\ "grpc_req_duration" \in DOMAIN metrics THEN "grpc_req_duration"
        ELSE ""

throughput_source_copy_paste(metrics) ==
    LET is_grpc == "grpc_req_duration" \in DOMAIN metrics
        is_rest == "http_req_duration" \in DOMAIN metrics
    IN  IF is_rest /\ "http_reqs" \in DOMAIN metrics THEN "http_reqs"
        ELSE IF is_grpc /\ "http_reqs" \in DOMAIN metrics THEN "http_reqs"
        ELSE ""

throughput_source_ignores_protocol(metrics) ==
    IF "http_reqs" \in DOMAIN metrics THEN "http_reqs"
    ELSE IF "iterations" \in DOMAIN metrics THEN "iterations"
    ELSE ""

\* the entry the throughput_* keys are read from ("" for none)
throughput_source(metrics) ==
    LET is_grpc == "grpc_req_duration" \in DOMAIN metrics
        is_rest == "http_req_duration" \in DOMAIN metrics
    IN  IF is_rest /\ "http_reqs" \in DOMAIN metrics THEN "http_reqs"
        ELSE IF is_grpc /\ "iterations" \in DOMAIN metrics THEN "iterations"
        ELSE ""

\* the entries whose 'values' the parser reads with .get(sub, 0)
entries_read(metrics) ==
    ({"data_sent", "data_received", "vus_max", "checks"}
        \cup {duration_source(metrics), throughput_source(metrics)})
    \cap DOMAIN metrics

extract_k6_metrics(file) ==
    IF file.kind \in {"missing", "invalid_json"} THEN DictValue(<<>>)
    ELSE IF file.kind = "not_object" THEN DictRaised("AttributeError")
    ELSE IF \E name \in entries_read(file.metrics) : file.metrics[name] = NotAMapping
    THEN DictRaised("AttributeError")
    ELSE LET metrics == file.metrics
             from(name, keys) ==
                 IF name \in DOMAIN metrics THEN fill(keys, metrics[name]) ELSE <<>>
         IN  DictValue(from("data_sent", SentKeys)
                       @@ from("data_received", ReceivedKeys)
                       @@ from(duration_source(metrics), DurationKeys)
                       @@ from("vus_max", VusKeys)
                       @@ from(throughput_source(metrics), ThroughputKeys)
                       @@ from("checks", ChecksKeys))

(***************************************************************************)
(* process_k6_metrics: the loop over the results_*_run_*.json files        *)
(***************************************************************************)
process_k6_file_keeps_empty(all, file) ==
    LET metrics == extract_k6_metrics(file).val
    IN  Append(all, metrics)

\* one iteration of "for file_path in matching_files": the record is appended
\* unless it is empty ("if not metrics: continue")
process_k6_file(all, file) ==
    LET metrics == extract_k6_metrics(file).val
    IN  IF metrics = <<>> THEN all ELSE Append(all, metrics)

\* after the loop: {} when nothing was extracted, else the average
finish_k6_metrics(all) ==
    IF Len(all) <= 0 THEN DictValue(<<>>) ELSE K6_calculate_average_metrics(all)

\* the loop as a whole: the records kept, unless extract_k6_metrics raised
\* on a file (nothing in the loop catches it)
RECURSIVE k6_loop(_, _)
k6_loop(all, files) ==
    IF files = <<>> THEN [raised |-> FALSE, all |-> all]
    ELSE IF extract_k6_metrics(Head(files)).tag = "raise" THEN [raised |-> TRUE, all |-> all]
    ELSE k6_loop(process_k6_file(all, Head(files)), Tail(files))

\* lines 163-196 on the matching files of a folder that is a directory
process_k6_metrics(files) ==
    IF files = <<>> THEN DictValue(<<>>)
    ELSE LET l == k6_loop(<<>>, files)
         IN  IF l.raised THEN DictRaised("AttributeError") ELSE finish_k6_metrics(l.all)

\* extract_k6_metrics.py run as a process: its return code (1 when an
\* exception ends it) and what it saved to average_k6_metrics.json (<<>>:
\* nothing, "if average_metrics:")
run_k6_metrics_extraction(files) ==
    LET average_metrics == process_k6_metrics(files)
    IN  IF average_metrics.tag = "raise" THEN [returncode |-> 1, saved |-> <<>>]
        ELSE [returncode |-> 0, saved |-> average_metrics.val]

(***************************************************************************)
(* process_cloudwatch_logs: the loop over services and their               *)
(* run_*_{service}_cloudwatch_logs.json files                              *)
(***************************************************************************)
NoLists == [deserialize |-> <<>>, serialize |-> <<>>]

\* "[deserialize_metrics, serialize_metrics] = extract_cloudwatch_logs_metrics(..)"
\* inside try/except Exception: an exception of the call, or a returned {} or
\* [] (ValueError: not enough values to unpack), skips the file
unpack_pair(res) ==
    IF res.tag = "list" /\ Len(res.items) = 2
    THEN [ok |-> TRUE, deserialize |-> res.items[1], serialize |-> res.items[2]]
    ELSE [ok |-> FALSE, deserialize |-> <<>>, serialize |-> <<>>]

process_logs_file_either(lists, file) ==
    LET b == IF file.kind = "ok" THEN parse_events(file.events)
             ELSE [serialize |-> <<>>, deserialize |-> <<>>]
    IN  [deserialize |-> IF b.deserialize # <<>>
                         THEN Append(lists.deserialize, LatencyStats(b.deserialize).rec)
                         ELSE lists.deserialize,
         serialize   |-> IF b.serialize # <<>>
                         THEN Append(lists.serialize, LatencyStats(b.serialize).rec)
                         ELSE lists.serialize]

\* lines 215-230: one file; both records are appended, or neither
process_logs_file(lists, file) ==
    LET u == unpack_pair(extract_cloudwatch_logs_metrics(file))
    IN  IF u.ok /\ u.deserialize # <<>> /\ u.serialize # <<>>
        THEN [deserialize |-> Append(lists.deserialize, u.deserialize),
              serialize   |-> Append(lists.serialize, u.serialize)]
        ELSE lists

\* lines 215-230: the whole loop over the files of one service
RECURSIVE process_logs_files(_, _)
process_logs_files(lists, files) ==
    IF files = <<>> THEN lists
    ELSE process_logs_files(process_logs_file(lists, Head(files)), Tail(files))

\* lines 232-240: has_metrics tells whether the service gets an entry, entry
\* is all_service_metrics[service]
service_average(lists) ==
    [has_metrics |-> lists.deserialize # <<>> /\ lists.serialize # <<>>,
     entry |-> [deserialize |-> Logs_calculate_average_metrics(lists.deserialize).val,
                serialize   |-> Logs_calculate_average_metrics(lists.serialize).val]]

\* lines 232-247 for every service: an entry for each service whose
\* directory exists, has matching files and gave records of both operations
entries(dirs, average) ==
    [sv \in {sv \in DOMAIN dirs :
                dirs[sv].exists /\ dirs[sv].files # <<>> /\ average[sv].has_metrics}
        |-> average[sv].entry]

\* lines 194-247 as a whole: all_service_metrics after the loop over the
\* services; dirs[service] is [exists, files, ..]
process_cloudwatch_logs(dirs) ==
    entries(dirs, [sv \in DOMAIN dirs |->
                      service_average(process_logs_files(NoLists, dirs[sv].files))])

(***************************************************************************)
(* The time-series reducer: extract_cpu_metrics and its three copies, and  *)
(* the per-file step of process_cloudwatch_metrics.                        *)
(* A file is [kind, datapoints]; kind is "missing", "invalid_json",        *)
(* "no_datapoints" (JSON without the key 'Datapoints') or "ok"; a          *)
(* datapoint is a mapping, with or without the key 'Maximum'.              *)
(***************************************************************************)
FloatValue(x) == [tag |-> "float", exc |-> "", val |-> x]

\* a datapoint with a Maximum, one without, and a JSON number where a
\* datapoint is expected ('Maximum' in 5 raises TypeError)
Datapoint(m) == [Maximum |-> m]

NoMaximum == [Average |-> 1]

NotIterable == [number |-> 5]

\* "for datapoint in data['Datapoints']: if 'Maximum' in datapoint: append"
RECURSIVE max_values(_)
max_values(datapoints) ==
    IF datapoints = <<>> THEN <<>>
    ELSE IF "Maximum" \in DOMAIN Head(datapoints)
    THEN <<Head(datapoints).Maximum>> \o max_values(Tail(datapoints))
    ELSE max_values(Tail(datapoints))

mean_of_maximums_or_largest(file) ==
    IF file.kind \in {"missing", "invalid_json", "no_datapoints"} THEN FloatValue(R(0))
    ELSE IF \E i \in 1..Len(file.datapoints) : file.datapoints[i] = NotIterable
    THEN DictRaised("TypeError")
    ELSE IF max_values(file.datapoints) = <<>> THEN FloatValue(R(0))
    ELSE FloatValue(R(At(sort(max_values(file.datapoints)), -1)))

\* the body the four extractors share: 0.0 for an unreadable file, a file
\* without 'Datapoints' and a file without any Maximum, else
\* sum(max_values) / len(max_values)
mean_of_maximums(file) ==
    IF file.kind \in {"missing", "invalid_json", "no_datapoints"} THEN FloatValue(R(0))
    ELSE IF \E i \in 1..Len(file.datapoints) : file.datapoints[i] = NotIterable
    THEN DictRaised("TypeError")
    ELSE IF max_values(file.datapoints) = <<>> THEN FloatValue(R(0))
    ELSE FloatValue(Rat(sum(max_values(file.datapoints)),
                        Len(max_values(file.datapoints))))

extract_cpu_metrics(file) == mean_of_maximums(file)

extract_memory_metrics(file) == mean_of_maximums(file)

extract_network_rx_metrics(file) == mean_of_maximums(file)

extract_network_tx_metrics(file) == mean_of_maximums(file)

\* the four loops of process_cloudwatch_metrics, in their order: the glob
\* suffix, the key and the unit of the output
MetricKinds ==
    <<[kind |-> "cpu", key |-> "cpu_utilization", unit |-> "Percent"],
      [kind |-> "memory", key |-> "memory_utilization", unit |-> "Percent"],
      [kind |-> "network_rx", key |-> "network_rx_bytes", unit |-> "Bytes"],
      [kind |-> "network_tx", key |-> "network_tx_bytes", unit |-> "Bytes"]>>

KindSet == {MetricKinds[i].kind : i \in 1..Len(MetricKinds)}

extract_metric(kind, file) ==
    CASE kind = "cpu"        -> extract_cpu_metrics(file)
      [] kind = "memory"     -> extract_memory_metrics(file)
      [] kind = "network_rx" -> extract_network_rx_metrics(file)
      [] kind = "network_tx" -> extract_network_tx_metrics(file)

keep_value_nonnegative(values, value) ==
    IF RLe(R(0), value) THEN Append(values, value) ELSE values

\* "if value > 0: cpu_values.append(value)"
keep_value(values, value) ==
    IF RLt(R(0), value) THEN Append(values, value) ELSE values

RECURSIVE rsum(_)
rsum(values) == IF values = <<>> THEN R(0) ELSE RAdd(Head(values), rsum(Tail(values)))

\* lines 243-272: an entry for every kind with a value
summaries(values) ==
    LET with == {i \in 1..Len(MetricKinds) : values[MetricKinds[i].kind] # <<>>}
        of(key) == CHOOSE i \in with : MetricKinds[i].key = key
    IN  [key \in {MetricKinds[i].key : i \in with} |->
            LET vs == values[MetricKinds[of(key)].kind]
            IN  [average_maximum       |-> RDiv(rsum(vs), Len(vs)),
                 total_files_processed |-> Len(vs),
                 unit                  |-> MetricKinds[of(key)].unit]]

\* one of the four loops as a whole: the values kept, unless the extractor
\* raised on a file (nothing in the loop catches it)
RECURSIVE metric_loop(_, _, _)
metric_loop(kind, values, files) ==
    IF files = <<>> THEN [raised |-> FALSE, values |-> values]
    ELSE LET res == extract_metric(kind, Head(files))
         IN  IF res.tag = "raise" THEN [raised |-> TRUE, values |-> values]
             ELSE metric_loop(kind, keep_value(values, res.val), Tail(files))

\* lines 196-284 on a folder that is a directory; files[kind] is what the
\* kind's glob gives.  The value is the metrics dictionary, saved when it is
\* not empty
process_cloudwatch_metrics(files) ==
    LET loops == [k \in KindSet |-> metric_loop(k, <<>>, files[k])]
    IN  IF \E k \in KindSet : loops[k].raised THEN DictRaised("TypeError")
        ELSE DictValue(summaries([k \in KindSet |-> loops[k].values]))

(***************************************************************************)
(* The recalculation path: recalculate_cpu_maximums.py.                    *)
(* A directory is [exists, files]; files maps the run numbers that have a  *)
(* file of the wanted metric type to that file.                            *)
(***************************************************************************)
\* "for run_num in range(1, 6)"
LastRun == 5

NoneValue == [tag |-> "None", exc |-> "", val |-> <<>>]

\* max(max_values); 0.0 without 'Datapoints', without any Maximum and on
\* every exception (except Exception: return 0.0)
get_maximum_value_from_file(file) ==
    IF file.kind \in {"missing", "invalid_json", "no_datapoints"} THEN R(0)
    ELSE IF \E i \in 1..Len(file.datapoints) : file.datapoints[i] = NotIterable THEN R(0)
    ELSE IF max_values(file.datapoints) = <<>> THEN R(0)
    ELSE R(At(sort(max_values(file.datapoints)), -1))

\* lines 86-101: the files of runs 1..5 that exist, in run order
RECURSIVE metric_files(_, _, _)
metric_files(dir, metric_type, run_num) ==
    IF run_num > LastRun THEN <<>>
    ELSE IF metric_type \in KindSet /\ run_num \in DOMAIN dir.files
    THEN <<dir.files[run_num]>> \o metric_files(dir, metric_type, run_num + 1)
    ELSE metric_files(dir, metric_type, run_num + 1)

\* lines 108-113: the per-file maxima that are > 0
RECURSIVE maximum_values(_)
maximum_values(files) ==
    IF files = <<>> THEN <<>>
    ELSE LET max_value == get_maximum_value_from_file(Head(files))
         IN  IF RLt(R(0), max_value) THEN <<max_value>> \o maximum_values(Tail(files))
             ELSE maximum_values(Tail(files))

\* max(maximum_values) of a non-empty list of rationals
RECURSIVE rmax(_)
rmax(values) ==
    IF Len(values) = 1 THEN values[1]
    ELSE LET rest == rmax(Tail(values))
         IN  IF RLt(rest, Head(values)) THEN Head(values) ELSE rest

final_value_always_mean(metric_type, values) == RDiv(rsum(values), Len(values))

\* lines 120-125
final_value(metric_type, values) ==
    IF metric_type \in {"cpu", "memory"} THEN rmax(values)
    ELSE RDiv(rsum(values), Len(values))

calculate_metric_value(dir, metric_type) ==
    IF ~dir.exists THEN NoneValue
    ELSE IF metric_files(dir, metric_type, 1) = <<>> THEN NoneValue
    ELSE LET values == maximum_values(metric_files(dir, metric_type, 1))
         IN  IF values = <<>> THEN NoneValue
             ELSE DictValue([average_maximum       |-> final_value(metric_type, values),
                             total_files_processed |-> Len(values),
                             unit |-> IF metric_type \in {"cpu", "memory"}
                                      THEN "Percent" ELSE "Bytes"])

\* the recalculation of the kind behind a key of cloudwatch_metrics.json
recalculated(dir, key) ==
    LET kind == (CHOOSE i \in 1..Len(MetricKinds) : MetricKinds[i].key = key)
    IN  calculate_metric_value([exists |-> dir.exists,
                                files  |-> dir.files[MetricKinds[kind].kind]],
                               MetricKinds[kind].kind)

MetricKeySet == {MetricKinds[i].key : i \in 1..Len(MetricKinds)}

update_final_results_adds_absent(file, dir) ==
    IF file.kind # "ok" THEN file
    ELSE [kind |-> "ok",
          data |-> [key \in DOMAIN file.data \cup
                            {k \in MetricKeySet : recalculated(dir, k).tag = "dict"} |->
                       IF key \in MetricKeySet /\ recalculated(dir, key).tag = "dict"
                       THEN recalculated(dir, key).val
                       ELSE file.data[key]]]

\* lines 148-195: nothing when the file is missing or cannot be read; else
\* each of the four keys that is in data is replaced when its recalculation
\* returned a result ("if cpu_result:"), and data is written back
update_final_results(file, dir) ==
    IF file.kind = "missing" THEN file
    ELSE IF file.kind = "unreadable" THEN file
    ELSE [kind |-> "ok",
          data |-> [key \in DOMAIN file.data |->
                       IF key \in MetricKeySet /\ recalculated(dir, key).tag = "dict"
                       THEN recalculated(dir, key).val
                       ELSE file.data[key]]]

(***************************************************************************)
(* The orchestrator: run_all_extractions.py.                               *)
(* test-results is a tree: tree[test_dir] is [k6, dirs], k6 the files      *)
(* results_*_run_*.json of the scenario folder in glob order and           *)
(* dirs[service] is [exists, files, metrics], files the service's          *)
(* run_*_{service}_cloudwatch_logs.json and metrics[kind] its time-series  *)
(* files of the kind.  The files the scripts write are kept apart from the *)
(* artifacts, as fs = [generated, extracted]: generated are the files      *)
(* written into test-results, extracted the files of extracted_metrics;    *)
(* both map a path <<test_dir, service or "", file name>> to a content.    *)
(***************************************************************************)
\* services = ['order', 'product', 'user', 'payment'], the first NumServices
AllServices == <<"order", "product", "user", "payment">>

Services == SubSeq(AllServices, 1, NumServices)

ServiceSet == {Services[i] : i \in 1..Len(Services)}

\* get_test_directories: the directories with ':' in their name, sorted
TestDirs == <<"grpc:average_load", "rest:average_load">>

TestDirSet == {TestDirs[i] : i \in 1..Len(TestDirs)}

NoFiles == [generated |-> <<>>, extracted |-> <<>>]

output_path_shared(test_dir) == ""

\* output_path = os.path.join(output_base, test_dir): the first component
\* of the paths under extracted_metrics
output_path(test_dir) == test_dir

\* json.dump / shutil.copy2 to a path: the content there is replaced
write(files, path, content) == (path :> content) @@ files

\* "if <content>: save_metrics_to_file(<content>, <path>)": an empty
\* dictionary is not saved
save_metrics_to_file(files, path, content) ==
    IF content # <<>> THEN write(files, path, content) ELSE files

\* "if result.returncode == 0: if os.path.exists(<from>): shutil.copy2"
copy_output(returncode, generated, from, extracted, dest_path) ==
    [generated |-> generated,
     extracted |-> IF returncode = 0 /\ from \in DOMAIN generated
                   THEN write(extracted, dest_path, generated[from])
                   ELSE extracted]

\* lines 60-70 after the script's run
copy_k6_output(test_dir, result, fs) ==
    copy_output(result.returncode,
                save_metrics_to_file(fs.generated, <<test_dir, "", "average_k6_metrics.json">>,
                                     result.saved),
                <<test_dir, "", "average_k6_metrics.json">>,
                fs.extracted, <<output_path(test_dir), "", "k6_metrics.json">>)

\* lines 43-76: the script's run, then the copy of average_k6_metrics.json
\* when the script returned 0 and the file exists
run_k6_extraction(test_dir, tree, fs) ==
    copy_k6_output(test_dir, run_k6_metrics_extraction(tree[test_dir].k6), fs)

\* extract_cloudwatch_logs.py lines 243-252: the files it saves, a file per
\* service with an entry and the combined file when there is any entry
save_logs_metrics(test_dir, metrics, generated) ==
    LET service_output(sv) == <<test_dir, sv, "cloudwatch_logs_metrics.json">>
        saved == [path \in {service_output(sv) : sv \in DOMAIN metrics} |-> metrics[path[2]]]
    IN  save_metrics_to_file(saved @@ generated,
                             <<test_dir, "", "average_cloudwatch_logs_metrics.json">>, metrics)

\* lines 96-117: the script returns 0 on a directory; the combined file is
\* copied when it exists, and the file of every service whose directory and
\* file exist
copy_logs_output(test_dir, dirs, generated, extracted) ==
    LET service_logs_file(sv) == <<test_dir, sv, "cloudwatch_logs_metrics.json">>
        found  == {sv \in DOMAIN dirs :
                      dirs[sv].exists /\ service_logs_file(sv) \in DOMAIN generated}
        copied == [path \in {<<output_path(test_dir), sv, "cloudwatch_logs_metrics.json">> :
                                sv \in found}
                      |-> generated[service_logs_file(path[2])]]
    IN  copy_output(0, generated, <<test_dir, "", "average_cloudwatch_logs_metrics.json">>,
                    copied @@ extracted,
                    <<output_path(test_dir), "", "cloudwatch_logs_metrics.json">>)

\* lines 79-123
run_cloudwatch_logs_extraction(test_dir, tree, fs) ==
    copy_logs_output(test_dir, tree[test_dir].dirs,
                     save_logs_metrics(test_dir, process_cloudwatch_logs(tree[test_dir].dirs),
                                       fs.generated),
                     fs.extracted)

\* lines 155-165 after the script's run: it returned 0 unless an exception
\* ended it, and saved the metrics when there are any
copy_metrics_output(test_dir, service, metrics, fs) ==
    copy_output(IF metrics.tag = "dict" THEN 0 ELSE 1,
                save_metrics_to_file(fs.generated,
                                     <<test_dir, service, "average_cloudwatch_metrics.json">>,
                                     metrics.val),
                <<test_dir, service, "average_cloudwatch_metrics.json">>,
                fs.extracted, <<output_path(test_dir), service, "cloudwatch_metrics.json">>)

\* lines 143-171: one service whose directory exists
run_cloudwatch_metrics_service(test_dir, service, tree, fs) ==
    copy_metrics_output(test_dir, service,
                        process_cloudwatch_metrics(tree[test_dir].dirs[service].metrics), fs)

service_not_found_ends_loop(fs, rest) == fs

\* lines 139-141, "continue": fs is the state at the missing directory and
\* rest what the remaining iterations make of it
service_not_found(fs, rest) == rest

\* lines 126-171: the loop over the services, from the n-th on
RECURSIVE run_cloudwatch_metrics_extraction(_, _, _, _)
run_cloudwatch_metrics_extraction(test_dir, n, tree, fs) ==
    IF n > Len(Services) THEN fs
    ELSE IF ~tree[test_dir].dirs[Services[n]].exists
    THEN service_not_found(fs, run_cloudwatch_metrics_extraction(test_dir, n + 1, tree, fs))
    ELSE run_cloudwatch_metrics_extraction(test_dir, n + 1, tree,
             run_cloudwatch_metrics_service(test_dir, Services[n], tree, fs))

\* lines 248-255: the three extractions of one test directory
process_test_dir(test_dir, tree, fs) ==
    run_cloudwatch_metrics_extraction(test_dir, 1, tree,
        run_cloudwatch_logs_extraction(test_dir, tree,
            run_k6_extraction(test_dir, tree, fs)))

\* lines 243-255: the loop over the test directories, from the n-th on
RECURSIVE process_test_dirs(_, _, _)
process_test_dirs(n, tree, fs) ==
    IF n > Len(TestDirs) THEN fs
    ELSE process_test_dirs(n + 1, tree, process_test_dir(TestDirs[n], tree, fs))

\* lines 174-210: extraction_summary.json lists the test directories
create_summary_report(fs) ==
    [fs EXCEPT !.extracted = write(@, <<"", "", "extraction_summary.json">>, TestDirs)]

(***************************************************************************)
(* State                                                                   *)
(***************************************************************************)
VARIABLES
    log_file,               \* one structured-log artifact: [kind, events]
    serialize_latencies,    \* retained latencies of the serialize bucket (unsorted)
    deserialize_latencies,  \* retained latencies of the deserialize bucket
    result,                 \* what extract_cloudwatch_logs_metrics returned for them
    all_metrics,            \* the list handed to calculate_average_metrics
    average_k6,             \* what the k6 copy returned for it
    average_logs,           \* what the CloudWatch-logs copy returned for it
    k6_file,                \* one load-test result artifact: [kind, metrics]
    k6_record,              \* what extract_k6_metrics returned for it
    k6_dir,                 \* a scenario folder: [is_dir, files], files in glob order
    k6_pc,                  \* where process_k6_metrics is: idle, loop, done, exit,
                            \* raised (left by an uncaught exception)
    k6_idx,                 \* the next file of matching_files
    k6_all_metrics,         \* all_metrics of process_k6_metrics
    k6_average,             \* what process_k6_metrics returned
    lp_folder,              \* a scenario folder: [is_dir, dirs]; dirs[service] is
                            \* [exists, files], files in glob order
    lp_pc,                  \* where process_cloudwatch_logs is
    lp_service,             \* index of the service of the outer loop
    lp_idx,                 \* the next file of matching_files
    lp_lists,               \* all_deserialize_metrics and all_serialize_metrics
    all_service_metrics,    \* service -> {deserialize, serialize}
    lp_outputs,             \* the files written: path -> content
    lp_return,              \* what process_cloudwatch_logs returned
    lp_total_files,         \* the printed "Total CloudWatch logs files processed"
                            \* (0: not printed)
    cm_folder,              \* a service folder: [is_dir, files]; files[kind] is the
                            \* list the kind's glob gives
    cm_pc,                  \* where process_cloudwatch_metrics is
    cm_kind,                \* index of the loop (1..4) it is in
    cm_idx,                 \* the next file of that loop
    cm_values,              \* cpu_values, memory_values, network_rx_values, ..
    cm_output,              \* average_cloudwatch_metrics.json as written
    rc_dir,                 \* test-results/<test_type>/<service>: [exists, files]
    rc_metric_type,         \* the metric_type calculate_metric_value is called with
    rc_result,              \* what it returned
    test_results,           \* the tree of artifacts under test-results
    generated,              \* the files the scripts wrote into test-results
    extracted_metrics,      \* the files of extracted_metrics: path -> content
    orch_pc,                \* where main is: idle, running, finished
    orch_step,              \* test_dir -> the extraction that is next for it
    orch_changes,           \* how many times the artifacts were changed
    final_results_file,     \* final_results/<test_type>/<service>/
                            \* cloudwatch_metrics.json before the call: [kind, data]
    fr_dir,                 \* test-results/<test_type>/<service>: [exists, files],
                            \* files[kind] the run files of the kind
    fr_updated,             \* the same file after update_final_results
    dir_names,              \* the names in a scenario folder and a service
                            \* folder: a set of <<folder, name>>
    ingested                \* per run of the pipeline, the names its globs matched

logsVars == <<log_file, serialize_latencies, deserialize_latencies, result>>

avgVars == <<all_metrics, average_k6, average_logs>>

k6FileVars == <<k6_file, k6_record>>

k6PipeVars == <<k6_dir, k6_pc, k6_idx, k6_all_metrics, k6_average>>

logsPipeVars == <<lp_folder, lp_pc, lp_service, lp_idx, lp_lists,
                  all_service_metrics, lp_outputs, lp_return, lp_total_files>>

metricsPipeVars == <<cm_folder, cm_pc, cm_kind, cm_idx, cm_values, cm_output>>

recalcVars == <<rc_dir, rc_metric_type, rc_result>>

orchVars == <<test_results, generated, extracted_metrics, orch_pc, orch_step, orch_changes>>

updateVars == <<final_results_file, fr_dir, fr_updated>>

globVars == <<dir_names, ingested>>

vars == <<logsVars, avgVars, k6FileVars, k6PipeVars, logsPipeVars, metricsPipeVars,
          recalcVars, orchVars, updateVars, globVars>>

\* everything but the variables of the structured-log parser
outsideLogs ==
    <<avgVars, k6FileVars, k6PipeVars, logsPipeVars, metricsPipeVars, recalcVars,
     orchVars, updateVars, globVars>>

\* everything but the variables of the aggregator
outsideAvg ==
    <<logsVars, k6FileVars, k6PipeVars, logsPipeVars, metricsPipeVars, recalcVars,
     orchVars, updateVars, globVars>>

\* everything but the variables of the load-test result parser
outsideK6File ==
    <<logsVars, avgVars, k6PipeVars, logsPipeVars, metricsPipeVars, recalcVars,
     orchVars, updateVars, globVars>>

\* everything but the variables of process_k6_metrics
outsideK6Pipe ==
    <<logsVars, avgVars, k6FileVars, logsPipeVars, metricsPipeVars, recalcVars,
     orchVars, updateVars, globVars>>

\* everything but the variables of process_cloudwatch_logs
outsideLogsPipe ==
    <<logsVars, avgVars, k6FileVars, k6PipeVars, metricsPipeVars, recalcVars,
     orchVars, updateVars, globVars>>

\* everything but the variables of process_cloudwatch_metrics
outsideMetricsPipe ==
    <<logsVars, avgVars, k6FileVars, k6PipeVars, logsPipeVars, recalcVars,
     orchVars, updateVars, globVars>>

\* everything but the variables of calculate_metric_value
outsideRecalc ==
    <<logsVars, avgVars, k6FileVars, k6PipeVars, logsPipeVars, metricsPipeVars,
     orchVars, updateVars, globVars>>

\* variables a specification does not use keep these values
NoFile == [kind |-> "none", events |-> <<>>]

LogFileIdle == log_file = NoFile

LogsIdle ==
    /\ LogFileIdle
    /\ serialize_latencies = <<>>
    /\ deserialize_latencies = <<>>
    /\ result = NotCalled

AvgIdle ==
    /\ all_metrics = <<>>
    /\ average_k6 = DictNotCalled
    /\ average_logs = DictNotCalled

NoK6File == [kind |-> "none", metrics |-> <<>>]

K6FileIdle ==
    /\ k6_file = NoK6File
    /\ k6_record = DictNotCalled

K6PipeIdle ==
    /\ k6_dir = [is_dir |-> FALSE, files |-> <<>>]
    /\ k6_pc = "idle"
    /\ k6_idx = 0
    /\ k6_all_metrics = <<>>
    /\ k6_average = DictNotCalled

NoDir == [exists |-> FALSE, files |-> <<>>]

LogsPipeIdle ==
    /\ lp_folder = [is_dir |-> FALSE, dirs |-> [sv \in ServiceSet |-> NoDir]]
    /\ lp_pc = "idle"
    /\ lp_service = 0
    /\ lp_idx = 0
    /\ lp_lists = NoLists
    /\ all_service_metrics = <<>>
    /\ lp_outputs = <<>>
    /\ lp_return = DictNotCalled
    /\ lp_total_files = 0

NoValues == [k \in KindSet |-> <<>>]

MetricsPipeIdle ==
    /\ cm_folder = [is_dir |-> FALSE, files |-> NoValues]
    /\ cm_pc = "idle"
    /\ cm_kind = 0
    /\ cm_idx = 0
    /\ cm_values = NoValues
    /\ cm_output = DictNotCalled

RecalcIdle ==
    /\ rc_dir = [exists |-> FALSE, files |-> <<>>]
    /\ rc_metric_type = ""
    /\ rc_result = DictNotCalled

\* everything but the variables of the orchestrator
outsideOrch ==
    <<logsVars, avgVars, k6FileVars, k6PipeVars, logsPipeVars, metricsPipeVars,
      recalcVars, updateVars, globVars>>

NoServiceDir == [exists |-> FALSE, files |-> <<>>, metrics |-> NoValues]

\* test-results with its test directories and nothing in them
NoArtifacts == [t \in TestDirSet |-> [k6 |-> <<>>, dirs |-> [sv \in ServiceSet |-> NoServiceDir]]]

OrchIdle ==
    /\ test_results = NoArtifacts
    /\ generated = <<>>
    /\ extracted_metrics = <<>>
    /\ orch_pc = "idle"
    /\ orch_step = [t \in TestDirSet |-> "none"]
    /\ orch_changes = 0

\* everything but the variables of update_final_results
outsideUpdate ==
    <<logsVars, avgVars, k6FileVars, k6PipeVars, logsPipeVars, metricsPipeVars,
      recalcVars, orchVars, globVars>>

NoFinalResults == [kind |-> "none", data |-> <<>>]

UpdateIdle ==
    /\ final_results_file = NoFinalResults
    /\ fr_dir = [exists |-> FALSE, files |-> [k \in KindSet |-> <<>>]]
    /\ fr_updated = NoFinalResults

\* everything but the variables of the file-name matching
outsideGlob ==
    <<logsVars, avgVars, k6FileVars, k6PipeVars, logsPipeVars, metricsPipeVars,
      recalcVars, orchVars, updateVars>>

GlobIdle ==
    /\ dir_names = {}
    /\ ingested = <<>>

\* values a retained latency can take (latency > 1 is never in a bucket)
BucketVals == {0, 1}

Quantiles == {<<9, 10, "latency_p90">>, <<95, 100, "latency_p95">>, <<99, 100, "latency_p99">>}

(***************************************************************************)
(* SpecStats: the statistics block applied to every pair of buckets        *)
(***************************************************************************)
InitStats ==
    /\ OrchIdle
    /\ UpdateIdle
    /\ GlobIdle
    /\ RecalcIdle
    /\ MetricsPipeIdle
    /\ LogFileIdle
    /\ serialize_latencies = <<>>
    /\ deserialize_latencies = <<>>
    /\ result = NotCalled
    /\ AvgIdle
    /\ K6FileIdle
    /\ K6PipeIdle
    /\ LogsPipeIdle

AppendSerialize ==
    /\ Len(serialize_latencies) < MaxBucket
    /\ \E v \in BucketVals : serialize_latencies' = Append(serialize_latencies, v)
    /\ result' = NotCalled
    /\ UNCHANGED <<deserialize_latencies, log_file, outsideLogs>>

AppendDeserialize ==
    /\ Len(deserialize_latencies) < MaxOther
    /\ \E v \in BucketVals : deserialize_latencies' = Append(deserialize_latencies, v)
    /\ result' = NotCalled
    /\ UNCHANGED <<serialize_latencies, log_file, outsideLogs>>

ComputeStats ==
    /\ result = NotCalled
    /\ result' = build_metrics(serialize_latencies, deserialize_latencies)
    /\ UNCHANGED <<serialize_latencies, deserialize_latencies, log_file, outsideLogs>>

NextStats == AppendSerialize \/ AppendDeserialize \/ ComputeStats

SpecStats == InitStats /\ [][NextStats]_vars

(***************************************************************************)
(* Claims about the statistics block                                       *)
(***************************************************************************)
\* v is the element at 0-based position k of L sorted ascending
RankIs(L, k, v) ==
    /\ Cardinality({i \in 1..Len(L) : L[i] < v}) <= k
    /\ k < Cardinality({i \in 1..Len(L) : L[i] <= v})

\* floor(num * n / den): the k with k <= num*n/den < k + 1
FloorIdx(num, den, n) ==
    CHOOSE k \in 0..n : den * k <= num * n /\ num * n < den * (k + 1)

HasRecords == result.tag = "list" /\ Len(result.items) = 2

\* the buckets in the order of the returned list: deserialize, serialize
BucketOf(j) == IF j = 1 THEN deserialize_latencies ELSE serialize_latencies

\* C1: for every non-empty bucket of n retained latencies and q in {0.90, 0.95,
\* 0.99}, latency_p90/p95/p99 is the element at index floor(q*n) of the bucket
\* sorted ascending, and that index is within 0..n-1, so the lookup never
\* raises (n >= 1, including 1, 2 and 10).
C1_PercentileAtFloorIndex ==
    /\ result.exc # "IndexError"
    /\ (serialize_latencies = <<>> /\ deserialize_latencies = <<>>) =>
          \* the index arithmetic alone, for every n up to MaxIndexN (it does
          \* not depend on the state: evaluated where the buckets are empty)
          \A n \in 1..MaxIndexN : \A q \in Quantiles :
              /\ PercentileIndex(q[1], q[2], n) = FloorIdx(q[1], q[2], n)
              /\ PercentileIndex(q[1], q[2], n) \in 0..(n - 1)
    /\ HasRecords =>
          \A j \in 1..2 : \A q \in Quantiles :
              LET L == BucketOf(j)
                  p == result.items[j][q[3]]
              IN  /\ p.d = 1
                  /\ RankIs(L, FloorIdx(q[1], q[2], Len(L)), p.n)

C1_Witness ==
    /\ HasRecords
    /\ Len(serialize_latencies) = 11
    /\ result.items[2].latency_p90 = R(0)
    /\ result.items[2].latency_p95 = R(1)

\* C2: latency_median of a bucket of n retained latencies is the middle element
\* of the sorted bucket when n is odd and the mean of the two central elements
\* when n is even; [1,2,3,4,5] gives 3 and [1,2,3,4] gives 2.5.
C2_MedianByParity ==
    /\ (serialize_latencies = <<>> /\ deserialize_latencies = <<>>) =>
          /\ LatencyStats(<<4, 1, 5, 3, 2>>).rec.latency_median = R(3)
          /\ LatencyStats(<<4, 1, 3, 2>>).rec.latency_median = Rat(5, 2)
    /\ HasRecords =>
          \A j \in 1..2 :
              LET L == BucketOf(j)
                  n == Len(L)
                  m == result.items[j].latency_median
              IN  IF n % 2 = 1
                  THEN m.d = 1 /\ RankIs(L, (n - 1) \div 2, m.n)
                  ELSE \E a, b \in BucketVals :
                          /\ RankIs(L, (n \div 2) - 1, a)
                          /\ RankIs(L, n \div 2, b)
                          /\ m = Rat(a + b, 2)

C2_Witness ==
    /\ HasRecords
    /\ Len(serialize_latencies) = 4
    /\ result.items[2].latency_median = Rat(1, 2)

OpStrs == {"serialize", "Deserialize", "other"}

LatStrs == {"0", "1", "2", "abc"}

\* "id","protocol","operation","endpoint","timestamp","latency"
Message(operation, latency_str) ==
    <<"id", "REST", operation, "/endpoint", "ts", latency_str>>

LogEvents ==
    {[message |-> <<>>], [message |-> <<"id", "REST", "serialize", "/endpoint", "ts">>]}
        \cup {[message |-> Message(o, l)] : o \in OpStrs, l \in LatStrs}

InitLogsFile ==
    /\ OrchIdle
    /\ UpdateIdle
    /\ GlobIdle
    /\ RecalcIdle
    /\ MetricsPipeIdle
    /\ log_file \in {[kind |-> k, events |-> <<>>] :
                        k \in {"missing", "invalid_json", "no_events", "ok"}}
    /\ serialize_latencies = <<>>
    /\ deserialize_latencies = <<>>
    /\ result = NotCalled
    /\ AvgIdle
    /\ K6FileIdle
    /\ K6PipeIdle
    /\ LogsPipeIdle

\* the artifact on disk gets one more event (before it is read)
AppendEvent ==
    /\ log_file.kind = "ok"
    /\ result = NotCalled
    /\ Len(log_file.events) < MaxEvents
    /\ \E e \in LogEvents : log_file' = [log_file EXCEPT !.events = Append(@, e)]
    /\ UNCHANGED <<serialize_latencies, deserialize_latencies, result, outsideLogs>>

\* one call of extract_cloudwatch_logs_metrics; the two buckets it filled are
\* kept beside the returned value
ExtractLogsFile ==
    /\ result = NotCalled
    /\ LET b == IF log_file.kind = "ok" THEN parse_events(log_file.events)
                ELSE [serialize |-> <<>>, deserialize |-> <<>>]
       IN  /\ serialize_latencies' = b.serialize
           /\ deserialize_latencies' = b.deserialize
    /\ result' = extract_cloudwatch_logs_metrics(log_file)
    /\ UNCHANGED <<log_file, outsideLogs>>

NextLogsFile == AppendEvent \/ ExtractLogsFile

SpecLogsFile == InitLogsFile /\ [][NextLogsFile]_vars

\* the events of the file whose latency field is a number <= 1 and whose
\* operation is op, in file order
RetainedIn(events, op) ==
    SelectSeq(events,
              LAMBDA e : /\ Len(e.message) >= 6
                         /\ e.message[6] \in {"0", "1"}
                         /\ e.message[3] \in (IF op = "serialize"
                                              THEN {"serialize", "Serialize"}
                                              ELSE {"deserialize", "Deserialize"}))

RetainedFor(op) == RetainedIn(log_file.events, op)

LatencyOf(e) == IF e.message[6] = "0" THEN 0 ELSE 1

HasStatsOf(L) ==
    /\ result.tag = "list"
    /\ \E j \in 1..Len(result.items) : result.items[j] = LatencyStats(L).rec

\* C23: for each operation whose bucket is non-empty the function returns the
\* statistics of that bucket, also when the other bucket is empty.
C23_StatsForEachNonEmptyBucket ==
    (result.tag # "none" /\ log_file.kind = "ok") =>
        /\ serialize_latencies # <<>> => HasStatsOf(serialize_latencies)
        /\ deserialize_latencies # <<>> => HasStatsOf(deserialize_latencies)

(***************************************************************************)
(* SpecAvg: both copies of calculate_average_metrics applied to every list *)
(***************************************************************************)
MetricKeys == {"a", "b"}

MetricVals == {R(4), R(10), R(20)}

\* every record over a subset of the keys
Records == UNION {[ks -> MetricVals] : ks \in SUBSET MetricKeys}

InitAvg ==
    /\ OrchIdle
    /\ UpdateIdle
    /\ GlobIdle
    /\ RecalcIdle
    /\ MetricsPipeIdle
    /\ LogsIdle
    /\ K6FileIdle
    /\ K6PipeIdle
    /\ LogsPipeIdle
    /\ all_metrics = <<>>
    /\ average_k6 = DictNotCalled
    /\ average_logs = DictNotCalled

AppendRecord ==
    /\ Len(all_metrics) < MaxRecords
    /\ average_k6 = DictNotCalled
    /\ average_logs = DictNotCalled
    /\ \E m \in Records : all_metrics' = Append(all_metrics, m)
    /\ UNCHANGED <<average_k6, average_logs, outsideAvg>>

AverageK6 ==
    /\ average_k6 = DictNotCalled
    /\ average_k6' = K6_calculate_average_metrics(all_metrics)
    /\ UNCHANGED <<all_metrics, average_logs, outsideAvg>>

AverageLogs ==
    /\ average_logs = DictNotCalled
    /\ average_logs' = Logs_calculate_average_metrics(all_metrics)
    /\ UNCHANGED <<all_metrics, average_k6, outsideAvg>>

NextAvg == AppendRecord \/ AverageK6 \/ AverageLogs

SpecAvg == InitAvg /\ [][NextAvg]_vars

\* the records of the list L that contain key k
Containing(L, k) == {i \in 1..Len(L) : k \in DOMAIN L[i]}

RECURSIVE SumAt(_, _, _)
SumAt(L, k, I) ==
    IF I = {} THEN R(0)
    ELSE LET i == CHOOSE j \in I : TRUE
         IN  RAdd(L[i][k], SumAt(L, k, I \ {i}))

\* avg is the per-key mean of the list L: its keys are the keys of at least
\* one record, and avg[k] times the number of records containing k is their sum
IsPerKeyMean(L, avg) ==
    /\ DOMAIN avg = UNION {DOMAIN L[i] : i \in 1..Len(L)}
    /\ \A k \in DOMAIN avg :
          LET c == Cardinality(Containing(L, k))
          IN  Rat(avg[k].n * c, avg[k].d) = SumAt(L, k, Containing(L, k))

\* C4: given a non-empty list, each copy returns, for each key of at least one
\* record, the sum of the key's values divided by the number of records that
\* contain it (not by the number of records), and no other key.
C4_PerKeyMean ==
    all_metrics # <<>> =>
        /\ average_k6.tag \in {"none", "dict"}
        /\ average_logs.tag \in {"none", "dict"}
        /\ average_k6.tag = "dict" => IsPerKeyMean(all_metrics, average_k6.val)
        /\ average_logs.tag = "dict" => IsPerKeyMean(all_metrics, average_logs.val)

\* records {a: 10, b: 4} and {a: 20} give a = 15 and b = 4
C4_Witness ==
    /\ all_metrics = <<[a |-> R(10), b |-> R(4)], [a |-> R(20)]>>
    /\ average_k6 = DictValue([a |-> R(15), b |-> R(4)])
    /\ average_logs = DictValue([a |-> R(15), b |-> R(4)])

\* C5: given zero records every copy of the aggregator fails with an error; it
\* never returns an empty or zero-filled aggregate.
C5_EmptyInputRaises ==
    all_metrics = <<>> =>
        /\ average_k6.tag \in {"none", "raise"}
        /\ average_logs.tag \in {"none", "raise"}

(***************************************************************************)
(* SpecK6File: extract_k6_metrics applied to every file                    *)
(***************************************************************************)
K6MetricNames ==
    <<"data_sent", "data_received", "http_req_duration", "grpc_req_duration",
      "vus_max", "http_reqs", "iterations", "checks">>

SubKeys ==
    <<"avg", "min", "max", "med", "p(90)", "p(95)", "p(99)", "rate", "count",
      "passes", "fails", "value">>

IndexOf(seq, x) == CHOOSE i \in 1..Len(seq) : seq[i] = x

Runs == {1, 2}

K6MetricNameSet == {K6MetricNames[i] : i \in 1..Len(K6MetricNames)}

\* a 'values' mapping with every statistical sub-key; the number tells the
\* metric entry, the sub-key and the run apart
ValuesTable ==
    [name \in K6MetricNameSet |-> [run \in Runs |->
        [sub \in {SubKeys[i] : i \in 1..Len(SubKeys)} |->
            R(1000 * run + 20 * IndexOf(K6MetricNames, name) + IndexOf(SubKeys, sub))]]]

FullValues(name, run) == ValuesTable[name][run]

\* every file: each metric name absent, present with full values, or present
\* with an empty 'values' mapping
K6Files(runs) ==
    {[kind |-> k, metrics |-> <<>>] : k \in {"missing", "invalid_json"}}
    \cup
    UNION {
        {[kind |-> "ok",
          metrics |-> [n \in present |-> IF n \in empty THEN <<>> ELSE FullValues(n, run)]] :
            empty \in SUBSET present, run \in runs} :
        present \in SUBSET K6MetricNameSet}

InitK6File ==
    /\ OrchIdle
    /\ UpdateIdle
    /\ GlobIdle
    /\ RecalcIdle
    /\ MetricsPipeIdle
    /\ LogsIdle
    /\ AvgIdle
    /\ K6PipeIdle
    /\ LogsPipeIdle
    /\ k6_file \in K6Files(Runs)
    /\ k6_record = DictNotCalled

ExtractK6File ==
    /\ k6_record = DictNotCalled
    /\ k6_record' = extract_k6_metrics(k6_file)
    /\ UNCHANGED <<k6_file, outsideK6File>>

NextK6File == ExtractK6File

SpecK6File == InitK6File /\ [][NextK6File]_vars

K6Extracted == k6_record.tag = "dict" /\ k6_file.kind = "ok"

Present(name) == name \in DOMAIN k6_file.metrics

\* the keys of the record are read from the entry called name
ReadFrom(keys, name) ==
    \A kv \in keys :
        /\ kv[1] \in DOMAIN k6_record.val
        /\ k6_record.val[kv[1]] = get(k6_file.metrics[name], kv[2], R(0))

Absent(keys) == \A kv \in keys : kv[1] \notin DOMAIN k6_record.val

\* no key of the record holds a number of the entry called name
NothingFrom(keys, name) ==
    \A kv \in keys : \A sub \in DOMAIN k6_file.metrics[name] :
        kv[1] \in DOMAIN k6_record.val =>
            k6_record.val[kv[1]] # k6_file.metrics[name][sub]

\* C8: a file with grpc_req_duration but not http_req_duration has every
\* request_duration_* key read from grpc_req_duration and the throughput_* keys
\* from iterations, never from a REST entry; symmetrically a file with
\* http_req_duration only reads http_req_duration and http_reqs.
C8_VariantDispatch ==
    K6Extracted =>
        /\ (Present("grpc_req_duration") /\ ~Present("http_req_duration")) =>
              /\ ReadFrom(DurationKeys, "grpc_req_duration")
              /\ IF Present("iterations") THEN ReadFrom(ThroughputKeys, "iterations")
                 ELSE Absent(ThroughputKeys)
              /\ Present("http_reqs") => NothingFrom(ThroughputKeys, "http_reqs")
        /\ (Present("http_req_duration") /\ ~Present("grpc_req_duration")) =>
              /\ ReadFrom(DurationKeys, "http_req_duration")
              /\ IF Present("http_reqs") THEN ReadFrom(ThroughputKeys, "http_reqs")
                 ELSE Absent(ThroughputKeys)
              /\ Present("iterations") => NothingFrom(ThroughputKeys, "iterations")

\* a gRPC file that also carries an http_reqs entry
C8_Witness ==
    /\ K6Extracted
    /\ Present("grpc_req_duration") /\ ~Present("http_req_duration")
    /\ Present("iterations") /\ Present("http_reqs")
    /\ k6_file.metrics["http_reqs"] # <<>>
    /\ k6_file.metrics["iterations"] # <<>>
    /\ k6_file.metrics["grpc_req_duration"] # <<>>
    /\ k6_record.val["throughput_total_requests"] = k6_file.metrics["iterations"]["count"]
    /\ k6_record.val["request_duration_p95"] = k6_file.metrics["grpc_req_duration"]["p(95)"]

\* C9: a file with neither http_req_duration nor grpc_req_duration gets no
\* request_duration_* and no throughput_* key, and still gets the data_sent_*,
\* data_received_*, vus_max and success_rate_* keys of each entry present.
C9_NoVariant ==
    (K6Extracted /\ ~Present("http_req_duration") /\ ~Present("grpc_req_duration")) =>
        /\ Absent(DurationKeys)
        /\ Absent(ThroughputKeys)
        /\ Present("data_sent") => ReadFrom(SentKeys, "data_sent")
        /\ Present("data_received") => ReadFrom(ReceivedKeys, "data_received")
        /\ Present("vus_max") => ReadFrom(VusKeys, "vus_max")
        /\ Present("checks") => ReadFrom(ChecksKeys, "checks")

\* neither variant, with http_reqs and iterations present all the same
C9_Witness ==
    /\ K6Extracted
    /\ ~Present("http_req_duration") /\ ~Present("grpc_req_duration")
    /\ Present("http_reqs") /\ Present("iterations")
    /\ Present("data_sent") /\ Present("data_received")
    /\ Present("vus_max") /\ Present("checks")
    /\ k6_file.metrics["checks"] # <<>>
    /\ DOMAIN k6_record.val =
          {kv[1] : kv \in SentKeys \cup ReceivedKeys \cup VusKeys \cup ChecksKeys}

\* C25: in every record the request_duration_* and the throughput_* values
\* come from the entries of one variant, http_req_duration with http_reqs or
\* grpc_req_duration with iterations, whatever entries the file holds.
C25_OneVariantPerFile ==
    (K6Extracted /\ ~Absent(DurationKeys) /\ ~Absent(ThroughputKeys)) =>
        \/ /\ Present("http_req_duration") /\ Present("http_reqs")
           /\ ReadFrom(DurationKeys, "http_req_duration")
           /\ ReadFrom(ThroughputKeys, "http_reqs")
        \/ /\ Present("grpc_req_duration") /\ Present("iterations")
           /\ ReadFrom(DurationKeys, "grpc_req_duration")
           /\ ReadFrom(ThroughputKeys, "iterations")

(***************************************************************************)
(* SpecK6Pipe: process_k6_metrics on every folder                          *)
(***************************************************************************)
K6File(names, run) == [kind |-> "ok", metrics |-> [n \in names |-> FullValues(n, run)]]

RestNames ==
    {"data_sent", "data_received", "http_req_duration", "vus_max", "http_reqs", "checks"}

GrpcNames ==
    {"data_sent", "data_received", "grpc_req_duration", "vus_max", "iterations", "checks"}

\* a REST result whose http_req_duration avg is present but not a number
K6FileBadNumber ==
    [K6File(RestNames, 1) EXCEPT !.metrics["http_req_duration"]["avg"] = NotANumber]

\* a REST result whose checks entry has a 'values' that is not an object
K6FileBadValues == [K6File(RestNames, 2) EXCEPT !.metrics["checks"] = NotAMapping]

\* the files a folder is drawn from: REST and gRPC results of two runs, a
\* result with vus_max only, one with no known metric, an unparsable one,
\* one that disappeared after the glob, the two results with a malformed
\* field and a file whose top-level JSON value is a list
K6FolderFiles ==
    {K6File(RestNames, 1), K6File(RestNames, 2), K6File(GrpcNames, 1),
     K6File({"vus_max"}, 2), K6File({}, 1),
     [kind |-> "invalid_json", metrics |-> <<>>],
     [kind |-> "missing", metrics |-> <<>>],
     K6FileBadNumber, K6FileBadValues,
     [kind |-> "not_object", metrics |-> <<>>]}

SeqsUpTo(S, n) == UNION {[1..k -> S] : k \in 0..n}

InitK6Pipe ==
    /\ OrchIdle
    /\ UpdateIdle
    /\ GlobIdle
    /\ RecalcIdle
    /\ MetricsPipeIdle
    /\ LogsIdle
    /\ AvgIdle
    /\ K6FileIdle
    /\ LogsPipeIdle
    /\ k6_dir \in {[is_dir |-> FALSE, files |-> <<>>]}
                  \cup {[is_dir |-> TRUE, files |-> fs] :
                           fs \in SeqsUpTo(K6FolderFiles, MaxK6Files)}
    /\ k6_pc = "idle"
    /\ k6_idx = 0
    /\ k6_all_metrics = <<>>
    /\ k6_average = DictNotCalled

\* lines 155-174: the directory test, the glob and "all_metrics = []"
K6Start ==
    /\ k6_pc = "idle"
    /\ IF ~k6_dir.is_dir
       THEN k6_pc' = "exit" /\ UNCHANGED <<k6_idx, k6_average>>
       ELSE IF k6_dir.files = <<>>
       THEN k6_pc' = "done" /\ k6_average' = DictValue(<<>>) /\ UNCHANGED k6_idx
       ELSE k6_pc' = "loop" /\ k6_idx' = 1 /\ UNCHANGED k6_average
    /\ UNCHANGED <<k6_dir, k6_all_metrics, outsideK6Pipe>>

\* lines 175-186: one file; an exception of extract_k6_metrics is caught
\* nowhere and ends process_k6_metrics
K6ProcessFile ==
    /\ k6_pc = "loop"
    /\ k6_idx <= Len(k6_dir.files)
    /\ LET res == extract_k6_metrics(k6_dir.files[k6_idx])
       IN  IF res.tag = "raise"
           THEN /\ k6_pc' = "raised"
                /\ k6_average' = res
                /\ UNCHANGED <<k6_all_metrics, k6_idx>>
           ELSE /\ k6_all_metrics' = process_k6_file(k6_all_metrics, k6_dir.files[k6_idx])
                /\ k6_idx' = k6_idx + 1
                /\ UNCHANGED <<k6_pc, k6_average>>
    /\ UNCHANGED <<k6_dir, outsideK6Pipe>>

\* lines 188-196: after the last file
K6Finish ==
    /\ k6_pc = "loop"
    /\ k6_idx > Len(k6_dir.files)
    /\ k6_average' = finish_k6_metrics(k6_all_metrics)
    /\ k6_pc' = IF finish_k6_metrics(k6_all_metrics).tag = "raise" THEN "raised" ELSE "done"
    /\ UNCHANGED <<k6_dir, k6_idx, k6_all_metrics, outsideK6Pipe>>

NextK6Pipe == K6Start \/ K6ProcessFile \/ K6Finish

SpecK6Pipe == InitK6Pipe /\ [][NextK6Pipe]_vars

Unreadable(file) == file.kind \in {"missing", "invalid_json"}

\* the records of the first n files of the folder that are readable and give
\* a non-empty record, in file order
RECURSIVE GoodRecords(_)
GoodRecords(n) ==
    IF n = 0 THEN <<>>
    ELSE LET f == k6_dir.files[n]
             r == extract_k6_metrics(f).val
         IN  IF Unreadable(f) \/ r = <<>> THEN GoodRecords(n - 1)
             ELSE Append(GoodRecords(n - 1), r)

\* C10: a missing or unparsable result file gives an empty record that is
\* skipped: it is in no per-key denominator, and the other files of the batch
\* are still parsed and averaged.
C10_BadFileSkipped ==
    /\ \A i \in 1..Len(k6_dir.files) :
          Unreadable(k6_dir.files[i]) => extract_k6_metrics(k6_dir.files[i]) = DictValue(<<>>)
    /\ k6_pc = "loop" => k6_all_metrics = GoodRecords(k6_idx - 1)
    /\ (k6_pc = "done" /\ k6_dir.files # <<>>) =>
          LET good == GoodRecords(Len(k6_dir.files))
          IN  /\ k6_all_metrics = good
              /\ k6_average.tag = "dict"
              /\ IsPerKeyMean(good, k6_average.val)

\* an unparsable file between two REST results: the average is over the two
C10_Witness ==
    /\ k6_pc = "done"
    /\ k6_dir.files = <<K6File(RestNames, 1), [kind |-> "invalid_json", metrics |-> <<>>],
                        K6File(RestNames, 2)>>
    /\ Len(k6_all_metrics) = 2
    /\ k6_average.val["request_duration_avg"] =
          RDiv(RAdd(FullValues("http_req_duration", 1)["avg"],
                    FullValues("http_req_duration", 2)["avg"]), 2)

\* C11: a malformed numeric field of a result file is recorded as 0 in the
\* file's record (every value of every record is a number), and it never
\* makes the extraction or the averaging fail: process_k6_metrics is left by
\* an exception only at a file whose top-level JSON value is not an object.
C11_MalformedFieldIsZero ==
    /\ \A i \in 1..Len(k6_all_metrics) : \A k \in DOMAIN k6_all_metrics[i] :
          is_number(k6_all_metrics[i][k])
    /\ k6_pc = "raised" =>
          /\ k6_idx <= Len(k6_dir.files)
          /\ k6_dir.files[k6_idx].kind = "not_object"

\* C12 (process_k6_metrics): when the run over a folder has ended, every
\* file of the folder that gives a record has contributed it to the
\* aggregate, whatever the content of its siblings.
C12_SiblingsStillProcessed ==
    (k6_pc \in {"done", "raised"} /\ k6_dir.files # <<>>) =>
        k6_all_metrics = GoodRecords(Len(k6_dir.files))

(***************************************************************************)
(* SpecLogsPipe: process_cloudwatch_logs on every scenario folder          *)
(***************************************************************************)
\* n events of one operation with latencies "1", "0", "1", ...
OpEvents(operation, n) ==
    [i \in 1..n |-> [message |-> Message(operation, IF i % 2 = 1 THEN "1" ELSE "0")]]

\* a readable file: the extra events, then s serialize and d deserialize events
MakeLogFile(s, d, extra) ==
    [kind |-> "ok",
     events |-> extra \o OpEvents("serialize", s) \o OpEvents("deserialize", d)]

\* the files a service directory is drawn from: three runs with 4, 5 and 6
\* valid serialize events (one with an outlier, one with a non-numeric
\* latency), a run with serialize events only, an unparsable file and a
\* JSON object without 'events'
FolderLogFiles ==
    {MakeLogFile(4, 1, <<[message |-> Message("serialize", "2")]>>),
     MakeLogFile(5, 2, <<>>),
     MakeLogFile(6, 1, <<[message |-> Message("Deserialize", "abc")]>>),
     MakeLogFile(4, 0, <<>>),
     [kind |-> "invalid_json", events |-> <<>>],
     [kind |-> "no_events", events |-> <<>>]}

RECURSIVE CountFiles(_, _)
CountFiles(dirs, n) ==
    IF n = 0 THEN 0 ELSE Len(dirs[Services[n]].files) + CountFiles(dirs, n - 1)

InitLogsPipe ==
    /\ OrchIdle
    /\ UpdateIdle
    /\ GlobIdle
    /\ RecalcIdle
    /\ MetricsPipeIdle
    /\ LogsIdle
    /\ AvgIdle
    /\ K6FileIdle
    /\ K6PipeIdle
    /\ lp_folder \in {[is_dir |-> b, dirs |-> [sv \in ServiceSet |-> NoDir]] : b \in BOOLEAN}
    /\ lp_pc = "idle"
    /\ lp_service = 0
    /\ lp_idx = 0
    /\ lp_lists = NoLists
    /\ all_service_metrics = <<>>
    /\ lp_outputs = <<>>
    /\ lp_return = DictNotCalled
    /\ lp_total_files = 0

logsRun == <<lp_pc, lp_service, lp_idx, lp_lists, all_service_metrics, lp_outputs, lp_return,
             lp_total_files>>

\* the artifacts are laid out before the run: a service directory appears
CreateServiceDir ==
    /\ lp_pc = "idle"
    /\ lp_folder.is_dir
    /\ \E sv \in ServiceSet :
          /\ ~lp_folder.dirs[sv].exists
          /\ lp_folder' = [lp_folder EXCEPT !.dirs[sv].exists = TRUE]
    /\ UNCHANGED <<logsRun, outsideLogsPipe>>

\* ... and a run's log file appears in it
AddLogFile ==
    /\ lp_pc = "idle"
    /\ CountFiles(lp_folder.dirs, Len(Services)) < MaxLogFiles
    /\ \E sv \in ServiceSet, f \in FolderLogFiles :
          /\ lp_folder.dirs[sv].exists
          /\ lp_folder' = [lp_folder EXCEPT !.dirs[sv].files = Append(@, f)]
    /\ UNCHANGED <<logsRun, outsideLogsPipe>>

\* lines 186-192
LogsStart ==
    /\ lp_pc = "idle"
    /\ IF ~lp_folder.is_dir
       THEN lp_pc' = "exit" /\ UNCHANGED lp_service
       ELSE lp_pc' = "service" /\ lp_service' = 1
    /\ UNCHANGED <<lp_folder, lp_idx, lp_lists, all_service_metrics, lp_outputs,
                   lp_return, lp_total_files, outsideLogsPipe>>

\* lines 194-213: the next service; a missing directory or one without a
\* matching file is passed over
LogsEnterService ==
    /\ lp_pc = "service"
    /\ lp_service <= Len(Services)
    /\ LET dir == lp_folder.dirs[Services[lp_service]]
       IN  IF ~dir.exists \/ dir.files = <<>>
           THEN lp_service' = lp_service + 1 /\ UNCHANGED <<lp_pc, lp_idx, lp_lists>>
           ELSE /\ lp_pc' = "files"
                /\ lp_idx' = 1
                /\ lp_lists' = NoLists
                /\ UNCHANGED lp_service
    /\ UNCHANGED <<lp_folder, all_service_metrics, lp_outputs, lp_return, lp_total_files,
                   outsideLogsPipe>>

LogsProcessFileStreaming ==
    /\ lp_pc = "files"
    /\ lp_idx <= Len(lp_folder.dirs[Services[lp_service]].files)
    /\ lp_lists' = process_logs_file(lp_lists, lp_folder.dirs[Services[lp_service]].files[lp_idx])
    /\ lp_idx' = lp_idx + 1
    /\ IF service_average(lp_lists').has_metrics
       THEN all_service_metrics' =
                (Services[lp_service] :> service_average(lp_lists').entry) @@ all_service_metrics
       ELSE UNCHANGED all_service_metrics
    /\ UNCHANGED <<lp_folder, lp_pc, lp_service, lp_outputs,
                   lp_return, lp_total_files, outsideLogsPipe>>

\* lines 215-230: one file of the service
LogsProcessFile ==
    /\ lp_pc = "files"
    /\ lp_idx <= Len(lp_folder.dirs[Services[lp_service]].files)
    /\ lp_lists' = process_logs_file(lp_lists, lp_folder.dirs[Services[lp_service]].files[lp_idx])
    /\ lp_idx' = lp_idx + 1
    /\ UNCHANGED <<lp_folder, lp_pc, lp_service, all_service_metrics, lp_outputs,
                   lp_return, lp_total_files, outsideLogsPipe>>

\* lines 232-247: the service's averages, kept and saved in its directory
LogsFinishService ==
    /\ lp_pc = "files"
    /\ lp_idx > Len(lp_folder.dirs[Services[lp_service]].files)
    /\ LET sv  == Services[lp_service]
           avg == service_average(lp_lists)
       IN  IF avg.has_metrics
           THEN /\ all_service_metrics' = (sv :> avg.entry) @@ all_service_metrics
                /\ lp_outputs' = (<<sv, "cloudwatch_logs_metrics.json">> :> avg.entry)
                                     @@ lp_outputs
           ELSE UNCHANGED <<all_service_metrics, lp_outputs>>
    /\ lp_pc' = "service"
    /\ lp_service' = lp_service + 1
    /\ UNCHANGED <<lp_folder, lp_idx, lp_lists, lp_return, lp_total_files, outsideLogsPipe>>

\* lines 255-256: the glob count of every service directory that exists
RECURSIVE total_files(_, _)
total_files(dirs, n) ==
    IF n = 0 THEN 0
    ELSE (IF dirs[Services[n]].exists THEN Len(dirs[Services[n]].files) ELSE 0)
         + total_files(dirs, n - 1)

\* lines 249-262: the combined file, the printed total and the returned value
LogsFinish ==
    /\ lp_pc = "service"
    /\ lp_service > Len(Services)
    /\ IF all_service_metrics # <<>>
       THEN /\ lp_outputs' = (<<"", "average_cloudwatch_logs_metrics.json">>
                                 :> all_service_metrics) @@ lp_outputs
            /\ lp_total_files' = total_files(lp_folder.dirs, Len(Services))
            /\ lp_return' = DictValue(all_service_metrics)
       ELSE /\ lp_return' = DictValue(<<>>)
            /\ UNCHANGED <<lp_outputs, lp_total_files>>
    /\ lp_pc' = "done"
    /\ UNCHANGED <<lp_folder, lp_service, lp_idx, lp_lists, all_service_metrics,
                   outsideLogsPipe>>

NextLogsPipe ==
    \/ CreateServiceDir
    \/ AddLogFile
    \/ LogsStart
    \/ LogsEnterService
    \/ LogsProcessFile
    \/ LogsFinishService
    \/ LogsFinish

SpecLogsPipe == InitLogsPipe /\ [][NextLogsPipe]_vars

StatKeys ==
    {"total_requests", "latency_min", "latency_max", "latency_avg", "latency_median",
     "latency_p90", "latency_p95", "latency_p99"}

\* the number of retained (numeric, <= 1) observations of op in a file
RetainedCount(file, op) ==
    IF file.kind = "ok" THEN Len(RetainedIn(file.events, op)) ELSE 0

FilesOf(sv) == lp_folder.dirs[sv].files

RECURSIVE SumCounts(_, _, _)
SumCounts(files, op, I) ==
    IF I = {} THEN 0
    ELSE LET i == CHOOSE j \in I : TRUE
         IN  RetainedCount(files[i], op) + SumCounts(files, op, I \ {i})

\* the files of a service with at least one retained observation of both
\* operations
Contributing(sv) ==
    {i \in 1..Len(FilesOf(sv)) :
        /\ RetainedCount(FilesOf(sv)[i], "serialize") > 0
        /\ RetainedCount(FilesOf(sv)[i], "deserialize") > 0}

OneStatsPerOperation(sv) ==
    /\ DOMAIN all_service_metrics[sv] = {"deserialize", "serialize"}
    /\ \A op \in {"deserialize", "serialize"} :
          DOMAIN all_service_metrics[sv][op] = StatKeys

\* C7 as stated: total_requests of a service's operation is the SUM of the
\* retained observations over the contributing per-run files (4, 5 and 6 give
\* 15), and there is exactly one LatencyStats per operation.
C7_TotalIsSum ==
    lp_pc = "done" =>
        \A sv \in DOMAIN all_service_metrics :
            /\ OneStatsPerOperation(sv)
            /\ \A op \in {"deserialize", "serialize"} :
                  all_service_metrics[sv][op].total_requests =
                      R(SumCounts(FilesOf(sv), op, Contributing(sv)))

\* C7 amended: total_requests of a service's operation is the MEAN, over the
\* contributing per-run files (those with a record for both operations), of
\* the file's retained count (4, 5 and 6 give 5); a service with such a file
\* gets exactly one LatencyStats per operation, a service without gets none.
C7_TotalIsMeanOverFiles ==
    lp_pc = "done" =>
        /\ DOMAIN all_service_metrics = {sv \in ServiceSet : Contributing(sv) # {}}
        /\ lp_return = DictValue(all_service_metrics)
        /\ \A sv \in DOMAIN all_service_metrics :
              /\ OneStatsPerOperation(sv)
              /\ \A op \in {"deserialize", "serialize"} :
                    all_service_metrics[sv][op].total_requests =
                        Rat(SumCounts(FilesOf(sv), op, Contributing(sv)),
                            Cardinality(Contributing(sv)))

\* three runs with 4, 5 and 6 valid serialize events: total_requests is 5
C7_Witness ==
    /\ lp_pc = "done"
    /\ "order" \in DOMAIN all_service_metrics
    /\ Len(FilesOf("order")) = 3
    /\ {RetainedCount(FilesOf("order")[i], "serialize") : i \in 1..3} = {4, 5, 6}
    /\ all_service_metrics["order"].serialize.total_requests = R(5)

\* a file that does not parse, or parses to an object without 'events'
Malformed(file) == file.kind \in {"invalid_json", "no_events"}

WellFormed(file) == ~Malformed(file)

RECURSIVE CountWellFormed(_)
\* the number of well-formed files in the service directories that exist
CountWellFormed(n) ==
    IF n = 0 THEN 0
    ELSE (IF lp_folder.dirs[Services[n]].exists
          THEN Len(SelectSeq(FilesOf(Services[n]), WellFormed)) ELSE 0)
         + CountWellFormed(n - 1)

\* C20 (structured logs): a file that does not parse or has no 'events' is
\* skipped without a fatal error: the run ends normally, every service has
\* the aggregate its other files give (the aggregate of the directory without
\* the malformed files), and the malformed files are in no count of processed
\* files.
C20_MalformedFileSkipped ==
    /\ lp_pc # "raised"
    /\ lp_pc = "done" =>
          /\ \A sv \in ServiceSet :
                LET rest == service_average(
                                process_logs_files(NoLists, SelectSeq(FilesOf(sv), WellFormed)))
                IN  IF rest.has_metrics
                    THEN /\ sv \in DOMAIN all_service_metrics
                         /\ all_service_metrics[sv] = rest.entry
                    ELSE sv \notin DOMAIN all_service_metrics
          /\ lp_total_files <= CountWellFormed(Len(Services))

\* the services the outer loop is through with
ServicesDone == {Services[i] : i \in 1..(IF lp_pc = "done" THEN Len(Services)
                                          ELSE lp_service - 1)}

\* C21: the aggregate of a service is produced and written only when every
\* matching file of the service has been through the loop, one file per
\* step: while files are being processed only the per-file records grow, and
\* the aggregate in the output is the one of all the files; the combined
\* file is written after the last service.
C21_AggregateAfterAllFiles ==
    /\ DOMAIN all_service_metrics \subseteq ServicesDone
    /\ \A path \in DOMAIN lp_outputs :
          IF path[1] = "" THEN lp_pc = "done" ELSE path[1] \in ServicesDone
    /\ lp_pc = "files" => Len(lp_lists.serialize) <= lp_idx - 1
    /\ lp_pc = "done" =>
          \A sv \in DOMAIN all_service_metrics :
              all_service_metrics[sv] =
                  service_average(process_logs_files(NoLists, FilesOf(sv))).entry

\* in the middle of a service's files: a record is there, a file is still to
\* be read, and the service has no aggregate yet
C21_Witness ==
    /\ lp_pc = "files"
    /\ 1 < lp_idx
    /\ lp_idx <= Len(FilesOf(Services[lp_service]))
    /\ lp_lists.serialize # <<>>
    /\ Services[lp_service] \notin DOMAIN all_service_metrics

RECURSIVE CountContributing(_)
CountContributing(n) ==
    IF n = 0 THEN 0 ELSE Cardinality(Contributing(Services[n])) + CountContributing(n - 1)

\* C22: the reported number of processed files is the number of files that
\* contributed a record to an aggregate; a skipped file is not counted.
C22_CountsContributingFiles ==
    (lp_pc = "done" /\ lp_total_files # 0) =>
        lp_total_files = CountContributing(Len(Services))

\* C24: a file contributes to both lists or to neither, so both lists have
\* the length of the number of files read so far that retain an observation
\* of both operations; a service is in the output iff it has such a file,
\* and then with a serialize and a deserialize block.
C24_BothOrNeither ==
    /\ Len(lp_lists.deserialize) = Len(lp_lists.serialize)
    /\ lp_pc = "files" =>
          Len(lp_lists.serialize) =
              Cardinality(Contributing(Services[lp_service]) \cap 1..(lp_idx - 1))
    /\ \A sv \in ServicesDone :
          /\ sv \in DOMAIN all_service_metrics <=> Contributing(sv) # {}
          /\ sv \in DOMAIN all_service_metrics => OneStatsPerOperation(sv)

\* a service is done whose files include one with observations of one
\* operation only and one with both: it is in the output
C24_Witness ==
    \E sv \in ServicesDone :
        /\ sv \in DOMAIN all_service_metrics
        /\ \E i \in 1..Len(FilesOf(sv)) :
              /\ RetainedCount(FilesOf(sv)[i], "serialize") > 0
              /\ RetainedCount(FilesOf(sv)[i], "deserialize") = 0

(***************************************************************************)
(* SpecMetricsPipe: process_cloudwatch_metrics on every service folder     *)
(***************************************************************************)
MetricFile(datapoints) == [kind |-> "ok", datapoints |-> datapoints]

\* the five-datapoint series of the documentation's example
ExampleSeries == [i \in 1..5 |-> Datapoint(10 * i)]

\* the files a folder is drawn from: the example series, a series with a
\* datapoint that has no Maximum, a series without any Maximum, an
\* unparsable file, a file without 'Datapoints', a series with a number
\* where a datapoint should be and a series of zeros
FolderMetricFiles ==
    {MetricFile(ExampleSeries),
     MetricFile(<<Datapoint(0), Datapoint(0)>>),
     MetricFile(<<Datapoint(10), NoMaximum, Datapoint(30)>>),
     MetricFile(<<NoMaximum>>),
     [kind |-> "invalid_json", datapoints |-> <<>>],
     [kind |-> "no_datapoints", datapoints |-> <<>>],
     MetricFile(<<Datapoint(10), NotIterable>>)}

RECURSIVE CountMetricFiles(_, _)
CountMetricFiles(files, n) ==
    IF n = 0 THEN 0 ELSE Len(files[MetricKinds[n].kind]) + CountMetricFiles(files, n - 1)

InitMetricsPipe ==
    /\ OrchIdle
    /\ UpdateIdle
    /\ GlobIdle
    /\ RecalcIdle
    /\ LogsIdle
    /\ AvgIdle
    /\ K6FileIdle
    /\ K6PipeIdle
    /\ LogsPipeIdle
    /\ cm_folder \in {[is_dir |-> b, files |-> NoValues] : b \in BOOLEAN}
    /\ cm_pc = "idle"
    /\ cm_kind = 0
    /\ cm_idx = 0
    /\ cm_values = NoValues
    /\ cm_output = DictNotCalled

\* the artifacts are laid out before the run: a run's time-series file of
\* one metric kind appears in the folder
AddMetricFile ==
    /\ cm_pc = "idle"
    /\ cm_folder.is_dir
    /\ CountMetricFiles(cm_folder.files, Len(MetricKinds)) < MaxMetricFiles
    /\ \E k \in KindSet, f \in FolderMetricFiles :
          cm_folder' = [cm_folder EXCEPT !.files[k] = Append(@, f)]
    /\ UNCHANGED <<cm_pc, cm_kind, cm_idx, cm_values, cm_output, outsideMetricsPipe>>

\* lines 190-208: the directory test and the four globs
MetricsStart ==
    /\ cm_pc = "idle"
    /\ IF ~cm_folder.is_dir
       THEN cm_pc' = "exit" /\ UNCHANGED <<cm_kind, cm_idx>>
       ELSE cm_pc' = "loop" /\ cm_kind' = 1 /\ cm_idx' = 1
    /\ UNCHANGED <<cm_folder, cm_values, cm_output, outsideMetricsPipe>>

\* one file of the current loop (lines 209-214, 218-223, 227-232, 236-241);
\* an exception of the extractor is caught nowhere
MetricsProcessFile ==
    /\ cm_pc = "loop"
    /\ cm_kind <= Len(MetricKinds)
    /\ cm_idx <= Len(cm_folder.files[MetricKinds[cm_kind].kind])
    /\ LET kind == MetricKinds[cm_kind].kind
           res  == extract_metric(kind, cm_folder.files[kind][cm_idx])
       IN  IF res.tag = "raise"
           THEN cm_pc' = "raised" /\ UNCHANGED <<cm_idx, cm_values>>
           ELSE /\ cm_values' = [cm_values EXCEPT ![kind] = keep_value(@, res.val)]
                /\ cm_idx' = cm_idx + 1
                /\ UNCHANGED cm_pc
    /\ UNCHANGED <<cm_folder, cm_kind, cm_output, outsideMetricsPipe>>

\* the end of one loop: on to the next kind
MetricsNextLoop ==
    /\ cm_pc = "loop"
    /\ cm_kind <= Len(MetricKinds)
    /\ cm_idx > Len(cm_folder.files[MetricKinds[cm_kind].kind])
    /\ cm_kind' = cm_kind + 1
    /\ cm_idx' = 1
    /\ UNCHANGED <<cm_folder, cm_pc, cm_values, cm_output, outsideMetricsPipe>>

MetricsFinishAlwaysSaves ==
    /\ cm_pc = "loop"
    /\ cm_kind > Len(MetricKinds)
    /\ cm_output' = DictValue(summaries(cm_values))
    /\ cm_pc' = "done"
    /\ UNCHANGED <<cm_folder, cm_kind, cm_idx, cm_values, outsideMetricsPipe>>

\* lines 243-284: the summaries, saved when there is at least one
MetricsFinish ==
    /\ cm_pc = "loop"
    /\ cm_kind > Len(MetricKinds)
    /\ IF summaries(cm_values) # <<>>
       THEN cm_output' = DictValue(summaries(cm_values))
       ELSE UNCHANGED cm_output
    /\ cm_pc' = "done"
    /\ UNCHANGED <<cm_folder, cm_kind, cm_idx, cm_values, outsideMetricsPipe>>

NextMetricsPipe ==
    \/ AddMetricFile
    \/ MetricsStart
    \/ MetricsProcessFile
    \/ MetricsNextLoop
    \/ MetricsFinish

SpecMetricsPipe == InitMetricsPipe /\ [][NextMetricsPipe]_vars

\* the datapoints of a file that carry a Maximum
WithMaximum(file) ==
    IF file.kind # "ok" THEN {}
    ELSE {i \in 1..Len(file.datapoints) : "Maximum" \in DOMAIN file.datapoints[i]}

RECURSIVE SumMaximum(_, _)
SumMaximum(file, I) ==
    IF I = {} THEN 0
    ELSE LET i == CHOOSE j \in I : TRUE
         IN  file.datapoints[i].Maximum + SumMaximum(file, I \ {i})

\* the arithmetic mean of the Maximum values present, 0 when there is none
FileMean(file) ==
    IF WithMaximum(file) = {} THEN R(0)
    ELSE Rat(SumMaximum(file, WithMaximum(file)), Cardinality(WithMaximum(file)))

\* the largest Maximum value present, 0 when there is none
FileLargest(file) ==
    IF WithMaximum(file) = {} THEN R(0)
    ELSE R(CHOOSE m \in {file.datapoints[i].Maximum : i \in WithMaximum(file)} :
              \A i \in WithMaximum(file) : file.datapoints[i].Maximum <= m)

FilesOfKind(kind) == cm_folder.files[kind]

\* the files of a kind whose value is not 0.0
Usable(kind) == {i \in 1..Len(FilesOfKind(kind)) : FileMean(FilesOfKind(kind)[i]) # R(0)}

\* the files of a kind the run has been through
Visited(j) ==
    IF cm_pc \in {"idle", "exit"} \/ j > cm_kind THEN {}
    ELSE IF j < cm_kind THEN 1..Len(FilesOfKind(MetricKinds[j].kind))
    ELSE 1..(cm_idx - 1)

RECURSIVE MeanOver(_, _, _, _)
\* sum over the files I of a kind of Term(file), divided by n
MeanOver(Term(_), kind, I, n) ==
    IF I = {} THEN R(0)
    ELSE LET i == CHOOSE j \in I : TRUE
         IN  RAdd(RDiv(Term(FilesOfKind(kind)[i]), n), MeanOver(Term, kind, I \ {i}, n))

\* C16: every extractor returns the arithmetic mean of the Maximum values
\* present in the file (datapoints without Maximum ignored), 0.0 when there
\* is none; a file whose value is 0.0 is left out of the kind's values, so of
\* the numerator and the denominator of average_maximum, and out of
\* total_files_processed; a kind without a usable file has no entry.
C16_FileMeanAndZeroExcluded ==
    /\ \A j \in 1..Len(MetricKinds) :
          LET kind == MetricKinds[j].kind
              seen == Visited(j) \cap Usable(kind)
          IN  /\ Len(cm_values[kind]) = Cardinality(seen)
              /\ \A n \in 1..Len(cm_values[kind]) :
                    \E i \in seen :
                        /\ Cardinality({i2 \in seen : i2 <= i}) = n
                        /\ cm_values[kind][n] = FileMean(FilesOfKind(kind)[i])
                        /\ cm_values[kind][n] # R(0)
    /\ cm_pc = "done" =>
          \A j \in 1..Len(MetricKinds) :
              LET kind == MetricKinds[j].kind
                  key  == MetricKinds[j].key
              IN  IF Usable(kind) = {} THEN key \notin DOMAIN cm_output.val
                  ELSE /\ key \in DOMAIN cm_output.val
                       /\ cm_output.val[key].total_files_processed =
                              Cardinality(Usable(kind))

\* a cpu loop over the series with a datapoint without Maximum, a series
\* without any Maximum and the example series: two files are counted
C16_Witness ==
    /\ cm_pc = "done"
    /\ FilesOfKind("cpu") = <<MetricFile(<<Datapoint(10), NoMaximum, Datapoint(30)>>),
                              MetricFile(<<NoMaximum>>), MetricFile(ExampleSeries)>>
    /\ cm_values["cpu"] = <<R(20), R(30)>>
    /\ cm_output.val["cpu_utilization"].total_files_processed = 2
    /\ cm_output.val["cpu_utilization"].average_maximum = R(25)

\* C17 as stated: average_maximum of a kind is the mean, over the
\* contributing files, of each file's LARGEST Maximum.
C17_MeanOfFileMaxima ==
    cm_pc = "done" =>
        \A j \in 1..Len(MetricKinds) :
            Usable(MetricKinds[j].kind) # {} =>
                cm_output.val[MetricKinds[j].key].average_maximum =
                    MeanOver(FileLargest, MetricKinds[j].kind, Usable(MetricKinds[j].kind),
                             Cardinality(Usable(MetricKinds[j].kind)))

\* C17 amended: average_maximum of a kind is the mean, over the contributing
\* files, of each file's MEAN of its Maximum values; five files of the series
\* 10, 20, 30, 40, 50 give 30.
C17_MeanOfFileMeans ==
    /\ (cm_pc = "idle" /\ cm_folder.files = NoValues) =>
          LET five == [i \in 1..5 |-> extract_cpu_metrics(MetricFile(ExampleSeries)).val]
          IN  summaries([NoValues EXCEPT !["cpu"] = five])["cpu_utilization"]
                  = [average_maximum |-> R(30), total_files_processed |-> 5,
                     unit |-> "Percent"]
    /\ cm_pc = "done" =>
          \A j \in 1..Len(MetricKinds) :
              Usable(MetricKinds[j].kind) # {} =>
                  cm_output.val[MetricKinds[j].key].average_maximum =
                      MeanOver(FileMean, MetricKinds[j].kind, Usable(MetricKinds[j].kind),
                               Cardinality(Usable(MetricKinds[j].kind)))

\* two memory files with differing datapoints: the terms are 20 and 30, not
\* 30 and 50
C17_Witness ==
    /\ cm_pc = "done"
    /\ FilesOfKind("memory") = <<MetricFile(<<Datapoint(10), NoMaximum, Datapoint(30)>>),
                                 MetricFile(ExampleSeries)>>
    /\ cm_output.val["memory_utilization"].average_maximum = R(25)

\* no file of the kind has a value above 0
NoPositiveFile(kind) ==
    \A i \in 1..Len(FilesOfKind(kind)) : RLe(FileMean(FilesOfKind(kind)[i]), R(0))

\* C30: every summary written by process_cloudwatch_metrics or returned by
\* calculate_metric_value has average_maximum > 0 and total_files_processed
\* between 1 and the number of matching files; a kind all of whose files
\* have a value <= 0 (a series of zeros included) has no summary, and no
\* output is written when every kind is without one.
C30_SummaryPositive ==
    /\ cm_output.tag = "dict" =>
          /\ DOMAIN cm_output.val # {}
          /\ \A j \in 1..Len(MetricKinds) :
                MetricKinds[j].key \in DOMAIN cm_output.val =>
                    LET entry == cm_output.val[MetricKinds[j].key]
                    IN  /\ RLt(R(0), entry.average_maximum)
                        /\ 1 <= entry.total_files_processed
                        /\ entry.total_files_processed <=
                               Len(FilesOfKind(MetricKinds[j].kind))
    /\ cm_pc = "done" =>
          /\ \A j \in 1..Len(MetricKinds) :
                NoPositiveFile(MetricKinds[j].kind) =>
                    /\ cm_output.tag = "dict" =>
                          MetricKinds[j].key \notin DOMAIN cm_output.val
          /\ (\A j \in 1..Len(MetricKinds) : NoPositiveFile(MetricKinds[j].kind)) =>
                cm_output = DictNotCalled
    /\ rc_result.tag = "dict" =>
          /\ RLt(R(0), rc_result.val.average_maximum)
          /\ 1 <= rc_result.val.total_files_processed
          /\ rc_result.val.total_files_processed <=
                 Cardinality(DOMAIN rc_dir.files \cap 1..LastRun)
    /\ (rc_result # DictNotCalled /\ rc_dir.exists
          /\ \A r \in DOMAIN rc_dir.files \cap 1..LastRun :
                RLe(get_maximum_value_from_file(rc_dir.files[r]), R(0))) =>
          rc_result = NoneValue

\* a run over a folder whose memory files are a series of zeros only and
\* whose cpu files are a series of zeros and the example series: cpu has a
\* summary of one file, memory has none
C30_Witness ==
    /\ cm_pc = "done"
    /\ FilesOfKind("memory") = <<MetricFile(<<Datapoint(0), Datapoint(0)>>)>>
    /\ FilesOfKind("cpu") = <<MetricFile(<<Datapoint(0), Datapoint(0)>>),
                              MetricFile(ExampleSeries)>>
    /\ cm_output.tag = "dict"
    /\ "memory_utilization" \notin DOMAIN cm_output.val
    /\ cm_output.val["cpu_utilization"].total_files_processed = 1

(***************************************************************************)
(* SpecRecalc: calculate_metric_value on every directory                   *)
(***************************************************************************)
\* the files a run's slot is drawn from
RecalcFiles ==
    {MetricFile(ExampleSeries),
     MetricFile(<<Datapoint(0), Datapoint(0)>>),
     MetricFile(<<Datapoint(10), NoMaximum, Datapoint(30)>>),
     MetricFile(<<NoMaximum>>),
     [kind |-> "invalid_json", datapoints |-> <<>>],
     MetricFile(<<Datapoint(10), NotIterable>>)}

MetricTypes == KindSet \cup {"disk"}

InitRecalc ==
    /\ OrchIdle
    /\ UpdateIdle
    /\ GlobIdle
    /\ LogsIdle
    /\ AvgIdle
    /\ K6FileIdle
    /\ K6PipeIdle
    /\ LogsPipeIdle
    /\ MetricsPipeIdle
    /\ rc_dir \in {[exists |-> b, files |-> <<>>] : b \in BOOLEAN}
    /\ rc_metric_type \in MetricTypes
    /\ rc_result = DictNotCalled

\* the artifacts are laid out before the call: the file of one run (also of
\* a run beyond the fifth) appears in the directory
AddRunFile ==
    /\ rc_result = DictNotCalled
    /\ rc_dir.exists
    /\ Cardinality(DOMAIN rc_dir.files) < MaxRecalcFiles
    /\ \E run_num \in (1..LastRun + 1) \ DOMAIN rc_dir.files, f \in RecalcFiles :
          rc_dir' = [rc_dir EXCEPT !.files = (run_num :> f) @@ @]
    /\ UNCHANGED <<rc_metric_type, rc_result, outsideRecalc>>

CalculateMetricValue ==
    /\ rc_result = DictNotCalled
    /\ rc_result' = calculate_metric_value(rc_dir, rc_metric_type)
    /\ UNCHANGED <<rc_dir, rc_metric_type, outsideRecalc>>

NextRecalc == AddRunFile \/ CalculateMetricValue

SpecRecalc == InitRecalc /\ [][NextRecalc]_vars

\* the largest Maximum of a file the recalculation can read to the end
RunLargest(file) ==
    IF file.kind = "ok" /\ \E i \in 1..Len(file.datapoints) : file.datapoints[i] = NotIterable
    THEN R(0)
    ELSE FileLargest(file)

\* the runs whose file contributes: one of the five runs, with a largest
\* Maximum above 0
ContributingRuns ==
    IF ~rc_dir.exists \/ rc_metric_type \notin KindSet THEN {}
    ELSE {r \in DOMAIN rc_dir.files \cap 1..LastRun : RunLargest(rc_dir.files[r]) # R(0)}

RECURSIVE SumLargest(_)
SumLargest(runs) ==
    IF runs = {} THEN R(0)
    ELSE LET r == CHOOSE x \in runs : TRUE
         IN  RAdd(RunLargest(rc_dir.files[r]), SumLargest(runs \ {r}))

\* C18: the per-file value is the file's largest Maximum; for cpu and memory
\* the result is the largest per-file value over the contributing run files,
\* for network_rx and network_tx the arithmetic mean of the per-file values;
\* the unit is Percent for cpu and memory and Bytes for network; five files
\* of the series 10, 20, 30, 40, 50 give 50 for cpu.
C18_AbsoluteMaximumOrMean ==
    /\ (rc_result = DictNotCalled /\ rc_dir.files = <<>>) =>
          LET five == [exists |-> TRUE,
                       files |-> [r \in 1..5 |-> MetricFile(ExampleSeries)]]
          IN  /\ calculate_metric_value(five, "cpu").val.average_maximum = R(50)
              /\ calculate_metric_value(five, "network_rx").val.average_maximum = R(50)
    /\ rc_result # DictNotCalled =>
          IF ContributingRuns = {} THEN rc_result = NoneValue
          ELSE /\ rc_result.tag = "dict"
               /\ rc_result.val.total_files_processed = Cardinality(ContributingRuns)
               /\ IF rc_metric_type \in {"cpu", "memory"}
                  THEN /\ rc_result.val.unit = "Percent"
                       /\ \E r \in ContributingRuns :
                             rc_result.val.average_maximum = RunLargest(rc_dir.files[r])
                       /\ \A r \in ContributingRuns :
                             RLe(RunLargest(rc_dir.files[r]), rc_result.val.average_maximum)
                  ELSE /\ rc_result.val.unit = "Bytes"
                       /\ rc_result.val.average_maximum =
                             RDiv(SumLargest(ContributingRuns),
                                  Cardinality(ContributingRuns))

\* runs 2 and 4 with largest Maximum 30 and 50: the network mean is 40
C18_Witness ==
    /\ rc_metric_type = "network_tx"
    /\ DOMAIN rc_dir.files = {2, 4, 5}
    /\ rc_dir.files[2] = MetricFile(<<Datapoint(10), NoMaximum, Datapoint(30)>>)
    /\ rc_dir.files[4] = MetricFile(ExampleSeries)
    /\ rc_dir.files[5] = MetricFile(<<NoMaximum>>)
    /\ rc_result = DictValue([average_maximum |-> R(40), total_files_processed |-> 2,
                              unit |-> "Bytes"])

\* the files of the directory that glob("*_{kind}_metrics.json") lists: those
\* of every run, here in run order
RECURSIVE glob_metric_files(_, _)
glob_metric_files(dir, run_num) ==
    IF run_num > LastRun + 1 THEN <<>>
    ELSE IF run_num \in DOMAIN dir.files
    THEN <<dir.files[run_num]>> \o glob_metric_files(dir, run_num + 1)
    ELSE glob_metric_files(dir, run_num + 1)

\* process_cloudwatch_metrics's loop of the kind on the same directory
PrimaryLoop == metric_loop(rc_metric_type, NoValues[rc_metric_type], glob_metric_files(rc_dir, 1))

\* both paths produce a cpu (or memory) result
BothProduce ==
    /\ rc_result.tag = "dict"
    /\ rc_metric_type \in {"cpu", "memory"}
    /\ rc_dir.exists
    /\ ~PrimaryLoop.raised
    /\ PrimaryLoop.values # <<>>

\* C29: on one service directory, when both paths produce a cpu or memory
\* result, the recalculated value is at least the primary path's
\* average_maximum and the recalculated total_files_processed at least the
\* primary's, whatever the run numbers of the files.
C29_RecalculatedAtLeastPrimary ==
    BothProduce =>
        /\ RLe(RDiv(rsum(PrimaryLoop.values), Len(PrimaryLoop.values)),
               rc_result.val.average_maximum)
        /\ Len(PrimaryLoop.values) <= rc_result.val.total_files_processed

(***************************************************************************)
(* SpecUpdate: update_final_results on every file and directory            *)
(***************************************************************************)
\* a summary written by the primary path
OldSummary == [average_maximum |-> R(7), total_files_processed |-> 9, unit |-> "Percent"]

\* the keys a cloudwatch_metrics.json is drawn from: the four kinds and one
\* other key
FinalKeys == MetricKeySet \cup {"disk_utilization"}

UpdateRuns == {1, LastRun + 1}

UpdateFiles == {MetricFile(ExampleSeries), MetricFile(<<Datapoint(0), Datapoint(0)>>)}

RECURSIVE CountRunFiles(_, _)
CountRunFiles(files, n) ==
    IF n = 0 THEN 0
    ELSE Cardinality(DOMAIN files[MetricKinds[n].kind]) + CountRunFiles(files, n - 1)

InitUpdate ==
    /\ LogsIdle
    /\ AvgIdle
    /\ K6FileIdle
    /\ K6PipeIdle
    /\ LogsPipeIdle
    /\ MetricsPipeIdle
    /\ RecalcIdle
    /\ OrchIdle
    /\ GlobIdle
    /\ final_results_file \in
          {[kind |-> k, data |-> <<>>] : k \in {"missing", "unreadable", "ok"}}
    /\ fr_dir \in {[exists |-> b, files |-> [k \in KindSet |-> <<>>]] : b \in BOOLEAN}
    /\ fr_updated = NoFinalResults

\* the file is laid out before the call: one more key in it
AddKey ==
    /\ fr_updated = NoFinalResults
    /\ final_results_file.kind = "ok"
    /\ \E key \in FinalKeys \ DOMAIN final_results_file.data :
          final_results_file' =
              [final_results_file EXCEPT !.data = (key :> OldSummary) @@ @]
    /\ UNCHANGED <<fr_dir, fr_updated, outsideUpdate>>

\* the run file of one kind appears in the directory
AddKindFile ==
    /\ fr_updated = NoFinalResults
    /\ fr_dir.exists
    /\ CountRunFiles(fr_dir.files, Len(MetricKinds)) < MaxRecalcFiles
    /\ \E k \in KindSet, f \in UpdateFiles :
          \E run_num \in UpdateRuns \ DOMAIN fr_dir.files[k] :
              fr_dir' = [fr_dir EXCEPT !.files[k] = (run_num :> f) @@ @]
    /\ UNCHANGED <<final_results_file, fr_updated, outsideUpdate>>

UpdateFinalResults ==
    /\ fr_updated = NoFinalResults
    /\ fr_updated' = update_final_results(final_results_file, fr_dir)
    /\ UNCHANGED <<final_results_file, fr_dir, outsideUpdate>>

NextUpdate == AddKey \/ AddKindFile \/ UpdateFinalResults

SpecUpdate == InitUpdate /\ [][NextUpdate]_vars

\* C28: update_final_results changes only those of the four keys that are
\* in the file and whose recalculation returns a result; it adds no key,
\* leaves every other key and every key without a recalculation as it was,
\* and leaves the file as it was when it is missing or cannot be read.
C28_UpdateFrame ==
    fr_updated # NoFinalResults =>
        IF final_results_file.kind # "ok" THEN fr_updated = final_results_file
        ELSE /\ fr_updated.kind = "ok"
             /\ DOMAIN fr_updated.data = DOMAIN final_results_file.data
             /\ \A key \in DOMAIN final_results_file.data :
                   IF key \in MetricKeySet /\ recalculated(fr_dir, key) # NoneValue
                   THEN fr_updated.data[key] = recalculated(fr_dir, key).val
                   ELSE fr_updated.data[key] = final_results_file.data[key]

\* a file with cpu_utilization, network_rx_bytes and disk_utilization, a
\* directory with a cpu file and a memory file: cpu is replaced, memory is
\* not added, network_rx_bytes and disk_utilization are as they were
C28_Witness ==
    /\ fr_updated # NoFinalResults
    /\ DOMAIN final_results_file.data =
          {"cpu_utilization", "network_rx_bytes", "disk_utilization"}
    /\ DOMAIN fr_dir.files["cpu"] # {}
    /\ DOMAIN fr_dir.files["memory"] # {}
    /\ recalculated(fr_dir, "memory_utilization").tag = "dict"
    /\ fr_updated.data["cpu_utilization"].average_maximum = R(50)
    /\ "memory_utilization" \notin DOMAIN fr_updated.data
    /\ fr_updated.data["network_rx_bytes"] = OldSummary
    /\ fr_updated.data["disk_utilization"] = OldSummary

(***************************************************************************)
(* SpecGlob: the file names the extractors read and write.  A name is its  *)
(* stem split at "_" and its extension: "run_1_order_cpu_metrics.json" is  *)
(* [parts |-> <<"run", "1", "order", "cpu", "metrics">>, ext |-> "json"].  *)
(* In the patterns of the extractors every "*" stands between two "_" or   *)
(* at an end of the stem, so it matches one or more whole parts (a part    *)
(* can be the empty string).                                               *)
(***************************************************************************)
MaxNames == 3

MaxPipelineRuns == 2

Name(parts) == [parts |-> parts, ext |-> "json"]

\* glob's match of a stem against the parts of a pattern
RECURSIVE match_parts(_, _)
match_parts(parts, pattern) ==
    IF pattern = <<>> THEN parts = <<>>
    ELSE IF parts = <<>> THEN FALSE
    ELSE IF Head(pattern) = "*"
    THEN match_parts(Tail(parts), Tail(pattern)) \/ match_parts(Tail(parts), pattern)
    ELSE Head(pattern) = Head(parts) /\ match_parts(Tail(parts), Tail(pattern))

fnmatch(name, pattern) ==
    name.ext = pattern.ext /\ match_parts(name.parts, pattern.parts)

\* "results_*_run_*.json"
k6_pattern == Name(<<"results", "*", "run", "*">>)

\* f"run_*_{service}_cloudwatch_logs.json"
logs_pattern(service) == Name(<<"run", "*", service, "cloudwatch", "logs">>)

\* "*_cpu_metrics.json", "*_memory_metrics.json",
\* "*_network_rx_bytes_metrics.json", "*_network_tx_bytes_metrics.json"
metrics_patterns ==
    {Name(<<"*", "cpu", "metrics">>), Name(<<"*", "memory", "metrics">>),
     Name(<<"*", "network", "rx", "bytes", "metrics">>),
     Name(<<"*", "network", "tx", "bytes", "metrics">>)}

\* the names the extractors write into the input directories
average_k6_metrics == Name(<<"average", "k6", "metrics">>)

average_cloudwatch_logs_metrics == Name(<<"average", "cloudwatch", "logs", "metrics">>)

cloudwatch_logs_metrics == Name(<<"cloudwatch", "logs", "metrics">>)

average_cpu_metrics == Name(<<"average", "cpu", "metrics">>)

average_cloudwatch_metrics == Name(<<"average", "cloudwatch", "metrics">>)

GeneratedNames ==
    {average_k6_metrics, average_cloudwatch_logs_metrics, cloudwatch_logs_metrics,
     average_cloudwatch_metrics}

\* the one service folder of the listing
GlobService == Services[1]

InputPatterns == {k6_pattern, logs_pattern(GlobService)} \cup metrics_patterns

\* what the globs of one run of the three extractors match: the k6 pattern
\* in the scenario folder, the logs and the four metrics patterns in the
\* service folder
matching_files(names) ==
    {dn \in names :
        \/ dn[1] = "" /\ fnmatch(dn[2], k6_pattern)
        \/ dn[1] = GlobService /\ fnmatch(dn[2], logs_pattern(GlobService))
        \/ dn[1] = GlobService /\ \E p \in metrics_patterns : fnmatch(dn[2], p)}

\* the files a run can write: each output only when its extractor matched a
\* file (whether it then has anything to write depends on the contents)
writable(names) ==
    LET k6      == \E dn \in names : dn[1] = "" /\ fnmatch(dn[2], k6_pattern)
        logs    == \E dn \in names :
                       dn[1] = GlobService /\ fnmatch(dn[2], logs_pattern(GlobService))
        metrics == \E dn \in names :
                       dn[1] = GlobService /\ \E p \in metrics_patterns : fnmatch(dn[2], p)
    IN  (IF k6 THEN {<<"", average_k6_metrics>>} ELSE {})
        \cup (IF logs THEN {<<GlobService, cloudwatch_logs_metrics>>,
                            <<"", average_cloudwatch_logs_metrics>>} ELSE {})
        \cup (IF metrics THEN {<<GlobService, average_cloudwatch_metrics>>} ELSE {})

\* names an artifact or a file left in the folders can have
ArtifactNames ==
    {Name(<<"results", "grpc", "run", "1">>),
     Name(<<"results", "rest", "average", "load", "run", "2">>),
     Name(<<"run", "1", GlobService, "cloudwatch", "logs">>),
     Name(<<"run", "1", GlobService, "cpu", "metrics">>),
     Name(<<"run", "2", GlobService, "memory", "metrics">>),
     Name(<<"run", "1", GlobService, "network", "rx", "bytes", "metrics">>),
     Name(<<"", "network", "tx", "bytes", "metrics">>),
     Name(<<"k6", "metrics">>),
     Name(<<"cloudwatch", "metrics">>),
     [parts |-> <<"run", "1", GlobService, "cpu", "metrics">>, ext |-> "csv"]}
    \cup GeneratedNames

InitGlob ==
    /\ LogsIdle
    /\ AvgIdle
    /\ K6FileIdle
    /\ K6PipeIdle
    /\ LogsPipeIdle
    /\ MetricsPipeIdle
    /\ RecalcIdle
    /\ OrchIdle
    /\ UpdateIdle
    /\ dir_names = {}
    /\ ingested = <<>>

\* a file appears in the scenario folder or the service folder before the
\* first run
AddName ==
    /\ ingested = <<>>
    /\ Cardinality(dir_names) < MaxNames
    /\ \E d \in {"", GlobService}, n \in ArtifactNames :
          /\ <<d, n>> \notin dir_names
          /\ dir_names' = dir_names \cup {<<d, n>>}
    /\ UNCHANGED <<ingested, outsideGlob>>

\* one run of the three extractors on the folders as they are
RunExtractors ==
    /\ Len(ingested) < MaxPipelineRuns
    /\ ingested' = Append(ingested, matching_files(dir_names))
    /\ \E written \in SUBSET writable(dir_names) :
          dir_names' = dir_names \cup written
    /\ UNCHANGED outsideGlob

NextGlob == AddName \/ RunExtractors

SpecGlob == InitGlob /\ [][NextGlob]_vars

\* C27: no name the extractors write into the input directories matches an
\* input pattern, so a run never reads a written output and a second run on
\* unchanged artifacts reads the files the first run read.
C27_OutputsNeverIngested ==
    /\ ingested = <<>> =>
          \A g \in GeneratedNames, p \in InputPatterns : ~fnmatch(g, p)
    /\ \A i \in 1..Len(ingested) : \A dn \in ingested[i] : dn[2] \notin GeneratedNames
    /\ \A i \in 2..Len(ingested) : ingested[i] = ingested[1]

\* two runs on a service folder with a cpu file: the first run wrote
\* average_cloudwatch_metrics.json beside it, the second read the cpu file
\* alone
C27_Witness ==
    /\ Len(ingested) = 2
    /\ dir_names = {<<GlobService, Name(<<"run", "1", GlobService, "cpu", "metrics">>)>>,
                    <<GlobService, average_cloudwatch_metrics>>}
    /\ ingested[2] = {<<GlobService, Name(<<"run", "1", GlobService, "cpu", "metrics">>)>>}

(***************************************************************************)
(* SpecOrch: main of run_all_extractions.py, run again and again while     *)
(* artifacts appear and disappear between the runs.                        *)
(* SpecPar: one run in which the test directories are processed            *)
(* concurrently, each by its own worker.                                   *)
(***************************************************************************)
OrchK6Files ==
    {K6File(RestNames, 1), K6File(GrpcNames, 2), [kind |-> "invalid_json", metrics |-> <<>>]}

OrchLogFiles == {MakeLogFile(5, 2, <<>>), MakeLogFile(4, 0, <<>>)}

OrchMetricFiles ==
    {MetricFile(<<Datapoint(10), NoMaximum, Datapoint(30)>>),
     [kind |-> "no_datapoints", datapoints |-> <<>>]}

\* the kinds of time-series files that appear and disappear
OrchMetricKinds == {"cpu"}

InitOrch ==
    /\ LogsIdle
    /\ AvgIdle
    /\ K6FileIdle
    /\ K6PipeIdle
    /\ LogsPipeIdle
    /\ MetricsPipeIdle
    /\ RecalcIdle
    /\ OrchIdle
    /\ UpdateIdle
    /\ GlobIdle

\* main is not running: the artifacts can change
Quiet == orch_pc \in {"idle", "finished"}

\* the artifacts change: none of the files written is touched, and the
\* last run is no longer a run on the artifacts as they are
Change(tree) ==
    /\ Quiet
    /\ orch_changes < MaxChanges
    /\ test_results' = tree
    /\ orch_changes' = orch_changes + 1
    /\ orch_pc' = "idle"
    /\ UNCHANGED <<generated, extracted_metrics, orch_step, outsideOrch>>

DropLast(files) == SubSeq(files, 1, Len(files) - 1)

\* an empty service directory appears
MakeServiceDir ==
    \E t \in TestDirSet, sv \in ServiceSet :
        /\ ~test_results[t].dirs[sv].exists
        /\ Change([test_results EXCEPT ![t].dirs[sv].exists = TRUE])

\* a load-test result appears in the test directory
PutK6Results ==
    \E t \in TestDirSet, f \in OrchK6Files :
        Change([test_results EXCEPT ![t].k6 = Append(@, f)])

\* a run's file is put into its service directory, which is made when it
\* is not there (organize_by_service.py)
PutLogs ==
    \E t \in TestDirSet, sv \in ServiceSet, f \in OrchLogFiles :
        Change([test_results EXCEPT ![t].dirs[sv].exists = TRUE,
                                    ![t].dirs[sv].files = Append(@, f)])

PutMetrics ==
    \E t \in TestDirSet, sv \in ServiceSet, k \in OrchMetricKinds, f \in OrchMetricFiles :
        Change([test_results EXCEPT ![t].dirs[sv].exists = TRUE,
                                    ![t].dirs[sv].metrics[k] = Append(@, f)])

\* the last file of a glob is deleted
RemoveK6Results ==
    \E t \in TestDirSet :
        /\ test_results[t].k6 # <<>>
        /\ Change([test_results EXCEPT ![t].k6 = DropLast(@)])

RemoveLogs ==
    \E t \in TestDirSet, sv \in ServiceSet :
        /\ test_results[t].dirs[sv].files # <<>>
        /\ Change([test_results EXCEPT ![t].dirs[sv].files = DropLast(@)])

RemoveMetrics ==
    \E t \in TestDirSet, sv \in ServiceSet, k \in OrchMetricKinds :
        /\ test_results[t].dirs[sv].metrics[k] # <<>>
        /\ Change([test_results EXCEPT ![t].dirs[sv].metrics[k] = DropLast(@)])

\* lines 213-240: main starts; every test directory is to be processed
OrchStart ==
    /\ Quiet
    /\ orch_pc' = "running"
    /\ orch_step' = [t \in TestDirSet |-> "k6"]
    /\ UNCHANGED <<test_results, generated, extracted_metrics, orch_changes, outsideOrch>>

\* one call of main's loop body: the files after it, and the next step
Extraction(t, step, fs, next) ==
    /\ orch_pc = "running"
    /\ orch_step[t] = step
    /\ generated' = fs.generated
    /\ extracted_metrics' = fs.extracted
    /\ orch_step' = [orch_step EXCEPT ![t] = next]
    /\ UNCHANGED <<test_results, orch_pc, orch_changes, outsideOrch>>

Files == [generated |-> generated, extracted |-> extracted_metrics]

RunK6ExtractionOrAbort(t) ==
    IF run_k6_metrics_extraction(test_results[t].k6).returncode = 0
    THEN Extraction(t, "k6", run_k6_extraction(t, test_results, Files), "logs")
    ELSE /\ orch_pc = "running"
         /\ orch_step[t] = "k6"
         /\ orch_pc' = "aborted"
         /\ UNCHANGED <<test_results, generated, extracted_metrics, orch_step,
                        orch_changes, outsideOrch>>

\* line 249
RunK6Extraction(t) ==
    Extraction(t, "k6", run_k6_extraction(t, test_results, Files), "logs")

\* line 252
RunLogsExtraction(t) ==
    Extraction(t, "logs", run_cloudwatch_logs_extraction(t, test_results, Files), "metrics")

\* line 255
RunMetricsExtraction(t) ==
    Extraction(t, "metrics", run_cloudwatch_metrics_extraction(t, 1, test_results, Files),
               "done")

\* lines 257-262: after the loop
OrchFinish ==
    /\ orch_pc = "running"
    /\ \A t \in TestDirSet : orch_step[t] = "done"
    /\ extracted_metrics' = create_summary_report(Files).extracted
    /\ orch_pc' = "finished"
    /\ UNCHANGED <<test_results, generated, orch_step, orch_changes, outsideOrch>>

\* "for test_dir in test_dirs": a directory's turn comes when the ones
\* before it are done
InTurn(t) ==
    \A i \in 1..Len(TestDirs) :
        (\E j \in 1..Len(TestDirs) : i < j /\ TestDirs[j] = t) => orch_step[TestDirs[i]] = "done"

NextOrch ==
    \/ MakeServiceDir
    \/ PutK6Results
    \/ PutLogs
    \/ PutMetrics
    \/ RemoveK6Results
    \/ RemoveLogs
    \/ RemoveMetrics
    \/ OrchStart
    \/ \E t \in TestDirSet : InTurn(t) /\ RunK6Extraction(t)
    \/ \E t \in TestDirSet : InTurn(t) /\ RunLogsExtraction(t)
    \/ \E t \in TestDirSet : InTurn(t) /\ RunMetricsExtraction(t)
    \/ OrchFinish

SpecOrch == InitOrch /\ [][NextOrch]_vars

\* the artifacts are laid out, then one run with a worker per test directory
NextPar ==
    \/ orch_pc = "idle" /\ PutK6Results
    \/ orch_pc = "idle" /\ PutLogs
    \/ orch_pc = "idle" /\ PutMetrics
    \/ orch_pc = "idle" /\ OrchStart
    \/ \E t \in TestDirSet : RunK6Extraction(t)
    \/ \E t \in TestDirSet : RunLogsExtraction(t)
    \/ \E t \in TestDirSet : RunMetricsExtraction(t)
    \/ OrchFinish

SpecPar == InitOrch /\ [][NextPar]_vars

(***************************************************************************)
(* SpecMain: one run of main on artifacts that make extractions fail.      *)
(* main is one sequential process, subprocess.run returns when the script  *)
(* has ended and every script is a loop over a finite list of files, so a  *)
(* running main goes on to its next position: weak fairness on the step of *)
(* its position (MainProgress), which in a step of NextMain is taken by    *)
(* the extraction or the summary report that stands at this position.      *)
(***************************************************************************)
\* a results file that is not a JSON object appears: extract_k6_metrics.py
\* ends with an exception
PutBadK6Results ==
    \E t \in TestDirSet :
        Change([test_results EXCEPT ![t].k6 = Append(@, [kind |-> "not_object",
                                                         metrics |-> <<>>])])

\* a time-series file with a number where a datapoint should be appears:
\* extract_cloudwatch_metrics.py ends with an exception
PutBadMetrics ==
    \E t \in TestDirSet, sv \in ServiceSet, k \in OrchMetricKinds :
        Change([test_results EXCEPT
                   ![t].dirs[sv].exists = TRUE,
                   ![t].dirs[sv].metrics[k] =
                       Append(@, MetricFile(<<Datapoint(10), NotIterable>>))])

MainStep ==
    \/ \E t \in TestDirSet : InTurn(t) /\ RunK6Extraction(t)
    \/ \E t \in TestDirSet : InTurn(t) /\ RunLogsExtraction(t)
    \/ \E t \in TestDirSet : InTurn(t) /\ RunMetricsExtraction(t)
    \/ OrchFinish

NextMain ==
    \/ orch_pc = "idle" /\ PutBadK6Results
    \/ orch_pc = "idle" /\ PutBadMetrics
    \/ orch_pc = "idle" /\ PutLogs
    \/ orch_pc = "idle" /\ PutMetrics
    \/ orch_pc = "idle" /\ OrchStart
    \/ MainStep

\* the step after k6, logs and metrics extraction of a test directory
NextStepOf == [k6 |-> "logs", logs |-> "metrics", metrics |-> "done"]

\* main moves on: the test directory in turn goes to its next step, or,
\* all being done, main ends
MainProgress ==
    /\ orch_pc = "running"
    /\ \/ \E t \in TestDirSet :
             /\ InTurn(t)
             /\ orch_step[t] \in DOMAIN NextStepOf
             /\ orch_step' = [orch_step EXCEPT ![t] = NextStepOf[@]]
             /\ orch_pc' = orch_pc
       \/ /\ \A t \in TestDirSet : orch_step[t] = "done"
          /\ orch_pc' = "finished"
          /\ orch_step' = orch_step

SpecMain == InitOrch /\ [][NextMain]_vars /\ WF_<<orch_pc, orch_step>>(MainProgress)

\* the exit code of the script a step of test directory t runs for the
\* output at path (a path of extracted_metrics)
ExitCodeFor(path) ==
    IF path[3] = "k6_metrics.json"
    THEN run_k6_metrics_extraction(test_results[path[1]].k6).returncode
    ELSE IF path[3] = "cloudwatch_metrics.json"
    THEN (IF process_cloudwatch_metrics(test_results[path[1]].dirs[path[2]].metrics).tag
                = "dict" THEN 0 ELSE 1)
    ELSE 0

\* a step wrote the output at path
Copied(path) ==
    /\ path \in DOMAIN extracted_metrics'
    /\ path \notin DOMAIN extracted_metrics
          \/ extracted_metrics'[path] # extracted_metrics[path]

\* the step a test directory is at, as a number
StepNumber(t) ==
    CASE orch_step[t] = "k6" -> 0
      [] orch_step[t] = "logs" -> 1
      [] orch_step[t] = "metrics" -> 2
      [] orch_step[t] = "done" -> 3
      [] OTHER -> 0

\* C26: a run of main ends with the summary report written, whatever
\* extraction fails; the test directories are processed in sorted order,
\* each through k6, logs and metrics extraction in this order, a failed
\* step being followed by the next step like a successful one; an output is
\* copied to the output tree only by a step whose script returned 0.
C26_MainCompletes ==
    /\ (orch_pc = "running") ~>
          (orch_pc = "finished"
              /\ <<"", "", "extraction_summary.json">> \in DOMAIN extracted_metrics)
    /\ [](orch_pc = "running" =>
            \A i, j \in 1..Len(TestDirs) :
                (i < j /\ orch_step[TestDirs[j]] # "k6") => orch_step[TestDirs[i]] = "done")
    /\ [][\A t \in TestDirSet :
              orch_step'[t] # orch_step[t] =>
                  \/ orch_step'[t] = "k6"
                  \/ StepNumber(t)' = StepNumber(t) + 1]_vars
    /\ [][\A path \in DOMAIN extracted_metrics' :
              Copied(path) => ExitCodeFor(path) = 0]_vars

\* a finished run on a first test directory whose results file makes the k6
\* script fail and whose order service has a logs file: no k6 output, the
\* logs output of the same directory and the summary are there
C26_Witness ==
    /\ orch_pc = "finished"
    /\ run_k6_metrics_extraction(test_results[TestDirs[1]].k6).returncode # 0
    /\ <<TestDirs[1], "", "k6_metrics.json">> \notin DOMAIN extracted_metrics
    /\ <<TestDirs[1], "", "cloudwatch_logs_metrics.json">> \in DOMAIN extracted_metrics
    /\ <<"", "", "extraction_summary.json">> \in DOMAIN extracted_metrics

\* what one run on the artifacts as they are, with nothing left by an
\* earlier run, writes
Sequential == create_summary_report(process_test_dirs(1, test_results, NoFiles))

\* what the artifacts of a combination give when extracted on their own
K6Of(t) == process_k6_metrics(test_results[t].k6)

LogsOf(t, sv) == service_average(process_logs_files(NoLists, test_results[t].dirs[sv].files))

MetricsOf(t, sv) == process_cloudwatch_metrics(test_results[t].dirs[sv].metrics)

DirExists(t, sv) == test_results[t].dirs[sv].exists

\* the published files
K6Out(t) == <<t, "", "k6_metrics.json">>

CombinedOut(t) == <<t, "", "cloudwatch_logs_metrics.json">>

LogsOut(t, sv) == <<t, sv, "cloudwatch_logs_metrics.json">>

MetricsOut(t, sv) == <<t, sv, "cloudwatch_metrics.json">>

\* C13: after any sequence of runs and changes of the artifacts, the
\* published files are those a single run on the artifacts present at the
\* last run gives: nothing published by an earlier run survives.
C13_PureFunctionOfArtifacts ==
    orch_pc = "finished" => extracted_metrics = Sequential.extracted

\* C14: a combination whose artifacts give no record has no published
\* file, and every combination whose artifacts give records has its file.
C14_EmptyOutputOmitted ==
    orch_pc = "finished" =>
        \A t \in TestDirSet :
            /\ K6Of(t) = DictValue(<<>>) => K6Out(t) \notin DOMAIN extracted_metrics
            /\ (K6Of(t).tag = "dict" /\ K6Of(t).val # <<>>) =>
                  /\ K6Out(t) \in DOMAIN extracted_metrics
                  /\ extracted_metrics[K6Out(t)] = K6Of(t).val
            /\ \A sv \in ServiceSet :
                  DirExists(t, sv) =>
                      /\ IF LogsOf(t, sv).has_metrics
                         THEN /\ LogsOut(t, sv) \in DOMAIN extracted_metrics
                              /\ extracted_metrics[LogsOut(t, sv)] = LogsOf(t, sv).entry
                         ELSE LogsOut(t, sv) \notin DOMAIN extracted_metrics
                      /\ MetricsOf(t, sv) = DictValue(<<>>) =>
                            MetricsOut(t, sv) \notin DOMAIN extracted_metrics
                      /\ (MetricsOf(t, sv).tag = "dict" /\ MetricsOf(t, sv).val # <<>>) =>
                            /\ MetricsOut(t, sv) \in DOMAIN extracted_metrics
                            /\ extracted_metrics[MetricsOut(t, sv)] = MetricsOf(t, sv).val

\* C15: whatever service directories are missing, nothing is written for
\* them and every existing combination is processed by the metrics
\* extraction and by the logs extraction: what its artifacts give is
\* published, and is its entry of the combined file.
C15_MissingServiceSkipped ==
    orch_pc = "finished" =>
        \A t \in TestDirSet, sv \in ServiceSet :
            IF ~DirExists(t, sv)
            THEN /\ \A path \in DOMAIN generated \cup DOMAIN extracted_metrics :
                        ~(path[1] = t /\ path[2] = sv)
                 /\ CombinedOut(t) \in DOMAIN extracted_metrics =>
                        sv \notin DOMAIN extracted_metrics[CombinedOut(t)]
            ELSE /\ (MetricsOf(t, sv).tag = "dict" /\ MetricsOf(t, sv).val # <<>>) =>
                        /\ MetricsOut(t, sv) \in DOMAIN extracted_metrics
                        /\ extracted_metrics[MetricsOut(t, sv)] = MetricsOf(t, sv).val
                 /\ (test_results[t].dirs[sv].files # <<>> /\ LogsOf(t, sv).has_metrics) =>
                        /\ LogsOut(t, sv) \in DOMAIN extracted_metrics
                        /\ extracted_metrics[LogsOut(t, sv)] = LogsOf(t, sv).entry
                        /\ CombinedOut(t) \in DOMAIN extracted_metrics
                        /\ sv \in DOMAIN extracted_metrics[CombinedOut(t)]
                        /\ extracted_metrics[CombinedOut(t)][sv] = LogsOf(t, sv).entry

\* a run has ended in which a service directory is missing and a later
\* service of the same test directory has both its files published
C15_Witness ==
    /\ orch_pc = "finished"
    /\ \E t \in TestDirSet, i, j \in 1..Len(Services) :
          /\ i < j
          /\ ~DirExists(t, Services[i])
          /\ DirExists(t, Services[j])
          /\ MetricsOut(t, Services[j]) \in DOMAIN extracted_metrics
          /\ LogsOut(t, Services[j]) \in DOMAIN extracted_metrics

\* the files under one test directory
Under(files, t) == [path \in {q \in DOMAIN files : q[1] = t} |-> files[path]]

\* what the extractions of one test directory write when nothing else runs
Alone(t) == process_test_dir(t, test_results, NoFiles)

\* the scenario/service combinations whose results a written file holds:
\* the combined logs file has an entry per service
CombinationsIn(path, content) ==
    IF path[2] = "" /\ path[3] \in {"average_cloudwatch_logs_metrics.json",
                                     "cloudwatch_logs_metrics.json"}
    THEN {<<path[1], sv>> : sv \in DOMAIN content}
    ELSE {<<path[1], path[2]>>}

\* C19 as stated: no file is written for two scenario/service combinations.
C19_NoCommonLocation ==
    /\ \A path \in DOMAIN generated :
          Cardinality(CombinationsIn(path, generated[path])) <= 1
    /\ \A path \in DOMAIN extracted_metrics :
          Cardinality(CombinationsIn(path, extracted_metrics[path])) <= 1

\* C19, amended: the test directories share no location.  Processed
\* concurrently in any interleaving, each ends with the files its
\* extractions write when run alone, and the run ends with the files of the
\* sequential order.
C19_TestDirsIndependent ==
    /\ \A t \in TestDirSet :
          orch_step[t] = "done" =>
              /\ Under(generated, t) = Alone(t).generated
              /\ Under(extracted_metrics, t) = Alone(t).extracted
    /\ orch_pc = "finished" => Files = Sequential

\* the second test directory is done while the first is still being
\* processed, and both have published their load-test results
C19_Witness ==
    /\ orch_step[TestDirs[2]] = "done"
    /\ orch_step[TestDirs[1]] = "logs"
    /\ K6Out(TestDirs[1]) \in DOMAIN extracted_metrics
    /\ K6Out(TestDirs[2]) \in DOMAIN extracted_metrics
    /\ extracted_metrics[K6Out(TestDirs[1])] # extracted_metrics[K6Out(TestDirs[2])]

====
